---- MODULE Spec2Model ----
(***************************************************************************)
(* Migration controllers of the socrata-leads scripts: the pagination      *)
(* loop over the raw table, the executor call, the offset / batch-size /   *)
(* failure accounting and the stop conditions.                             *)
(*                                                                         *)
(* A source table is modelled by its row count; ORDER BY id LIMIT/OFFSET   *)
(* identifies a page with the range of positions it covers.                *)
(***************************************************************************)
EXTENDS Integers, Sequences, FiniteSets, TLC

VARIABLES
    script,                \* which program is running
    table_count,           \* rows in the source table (unmodified during a run)
    start_offset,          \* the offset the run was started with
    current_offset,
    batch_size,
    batch_count,
    total_processed,
    consecutive_failures,
    pc,                    \* "top" | "executing" | "stopped"
    inflight,              \* the page handed to the executor: [start, len]
    last,                  \* the last settled iteration: [start, len, result]
    stop_reason,           \* why the loop was left
    sink_rows,             \* rows the sink has applied through the executor
    fail_run,              \* executor failures in a row at the current offset
    exec_failures,         \* executor failures since the start of the run
    target_total,          \* the loop bound the run compares its offset with
    size_at_offset,        \* batch_size when the run arrived at current_offset
    success_count,         \* batches a retrying controller settled as successful
    slept,                 \* seconds of a retrying controller's last time.sleep
    channel_calls,         \* subprocess.run invocations made by executor clients
    tm,                    \* turbo-migrate.py: queues, workers and monitor
    orch,                  \* hybrid-migrate.py / parallel-migrate.py: two threads
    rs,                    \* a sink table and the envelope sent to it
    out,                   \* the statements of the envelope printed last
    rn,                    \* a run limited to max_batches and its restarts
    cv,                    \* a source row and the literals built from it
    rsrc                   \* a page query and what it returned, twice

vars == << script, table_count, start_offset, current_offset, batch_size,
           batch_count, total_processed, consecutive_failures, pc, inflight,
           last, stop_reason, sink_rows, fail_run, exec_failures,
           target_total, size_at_offset, success_count, slept, channel_calls,
           tm, orch, rs, out, rn, cv, rsrc >>

\* the variables of the page printing, restart, value codec and row source
pagevars == << out, rn, cv, rsrc >>

\* the variables of the single-loop controllers
ctlvars == << script, table_count, start_offset, current_offset, batch_size,
              batch_count, total_processed, consecutive_failures, pc, inflight,
              last, stop_reason, sink_rows, fail_run, exec_failures,
              target_total, size_at_offset, success_count, slept, channel_calls >>

\* ---------------------------------------------------------------- bounds
\* executor failures a run of continuous_auto_migrate may recover from (a
\* failure that makes the run stop is possible at any time)
MaxExecutorFailures == 2
\* executor failures during one run of continuous_turbo_migrate
MaxTurboFailures == 3
\* times envelopes are executed on the sink in one run
MaxSends == 3
\* runs of a script in a row, each starting where the one before stopped
MaxRuns == 3
\* characters of a text field and of a JSON text a builder is checked on
MaxLen == 3
MaxJsonLen == 3

\* ------------------------------------------------------ program constants
AutoStartOffset == 156
AutoInitialBatch == 5000
AutoTargetTotal == 1736174
AutoCeiling == 10000
AutoGrowStep == 1000
AutoGrowEvery == 5
AutoFloor == 1000
AutoFailureLimit == 3
AutoRetrySleep == 5
AutoPause == 1

TurboStartOffset == 156
TurboBatch == 15000
TurboTargetTotal == 1736174
TurboRetrySleep == 5
TurboPause == 1

\* table sizes the runs are checked on: a table that ends before the start
\* offset, a short single page, several pages, enough pages for batch_size
\* to reach the ceiling, and tables larger than the hard-coded target
AutoTableSizes == { 100, 156, 160, 12156, 260156 }
TurboTableSizes == { 100, 160, 40156, 1736174, 1750000 }

Min(a, b) == IF a < b THEN a ELSE b
Max(a, b) == IF a > b THEN a ELSE b

NoPage == [start |-> -1, len |-> 0]
NoLast == [start |-> -1, len |-> 0, result |-> "none"]

\* variant: a page holds limit rows whenever the offset is inside the table
PageLen_Unclamped(n, offset, limit) ==
    IF offset >= n THEN 0 ELSE limit

\* SELECT ... ORDER BY id LIMIT limit OFFSET offset: number of rows returned
PageLen(n, offset, limit) == Max(0, Min(limit, n - offset))

\* the locals every loop starts from
InitLocals ==
    /\ current_offset = start_offset
    /\ size_at_offset = batch_size
    /\ batch_count = 0
    /\ total_processed = 0
    /\ consecutive_failures = 0
    /\ pc = "top"
    /\ inflight = NoPage
    /\ last = NoLast
    /\ stop_reason = "none"
    /\ sink_rows = 0
    /\ fail_run = 0
    /\ exec_failures = 0
    /\ success_count = 0
    /\ slept = 0
    /\ channel_calls = 0

\* ------------------------------------------------ mcp-auto-execute.py
\* variant: a failed batch is skipped (offset moved past it)
AutoFailurePath_SkipsBatch(start, len, result) ==
    /\ consecutive_failures' = consecutive_failures + 1
    /\ last' = [start |-> start, len |-> len, result |-> result]
    /\ IF consecutive_failures + 1 >= AutoFailureLimit
         THEN /\ pc' = "stopped"
              /\ stop_reason' = "failures"
              /\ batch_size' = batch_size
         ELSE /\ pc' = "top"
              /\ stop_reason' = stop_reason
              /\ batch_size' = Max(batch_size \div 2, AutoFloor)
    /\ current_offset' = current_offset + len
    /\ UNCHANGED << total_processed, size_at_offset >>

\* variant: halving without the floor
AutoFailurePath_NoFloor(start, len, result) ==
    /\ consecutive_failures' = consecutive_failures + 1
    /\ last' = [start |-> start, len |-> len, result |-> result]
    /\ IF consecutive_failures + 1 >= AutoFailureLimit
         THEN /\ pc' = "stopped"
              /\ stop_reason' = "failures"
              /\ batch_size' = batch_size
         ELSE /\ pc' = "top"
              /\ stop_reason' = stop_reason
              /\ batch_size' = batch_size \div 2
    /\ UNCHANGED << current_offset, total_processed, size_at_offset >>

\* variant: the count of failures in a row is not kept
AutoFailurePath_ForgetsFailures(start, len, result) ==
    /\ consecutive_failures' = 0
    /\ last' = [start |-> start, len |-> len, result |-> result]
    /\ IF consecutive_failures + 1 >= AutoFailureLimit
         THEN /\ pc' = "stopped"
              /\ stop_reason' = "failures"
              /\ batch_size' = batch_size
         ELSE /\ pc' = "top"
              /\ stop_reason' = stop_reason
              /\ batch_size' = Max(batch_size \div 2, AutoFloor)
    /\ UNCHANGED << current_offset, total_processed, size_at_offset >>

\* variant: the stop test is "more than the limit"
AutoFailurePath_ExceedsLimit(start, len, result) ==
    /\ consecutive_failures' = consecutive_failures + 1
    /\ last' = [start |-> start, len |-> len, result |-> result]
    /\ IF consecutive_failures + 1 > AutoFailureLimit
         THEN /\ pc' = "stopped"
              /\ stop_reason' = "failures"
              /\ batch_size' = batch_size
         ELSE /\ pc' = "top"
              /\ stop_reason' = stop_reason
              /\ batch_size' = Max(batch_size \div 2, AutoFloor)
    /\ UNCHANGED << current_offset, total_processed, size_at_offset >>

\* the else-branch of continuous_auto_migrate (lines 135-148)
AutoFailurePath(start, len, result) ==
    /\ consecutive_failures' = consecutive_failures + 1
    /\ last' = [start |-> start, len |-> len, result |-> result]
    /\ IF consecutive_failures + 1 >= AutoFailureLimit
         THEN /\ pc' = "stopped"
              /\ stop_reason' = "failures"
              /\ batch_size' = batch_size
         ELSE /\ pc' = "top"
              /\ stop_reason' = stop_reason
              /\ batch_size' = Max(batch_size \div 2, AutoFloor)
    /\ UNCHANGED << current_offset, total_processed, size_at_offset >>

\* variant: the total counts the requested batch size, not the page length
AutoSuccessPath_CountsBatchSize(start, len) ==
    /\ total_processed' = total_processed + batch_size
    /\ current_offset' = current_offset + len
    /\ consecutive_failures' = 0
    /\ batch_size' = IF batch_count % AutoGrowEvery = 0 /\ batch_size < AutoCeiling
                       THEN Min(batch_size + AutoGrowStep, AutoCeiling)
                       ELSE batch_size
    /\ size_at_offset' = batch_size'
    /\ last' = [start |-> start, len |-> len, result |-> "success"]
    /\ pc' = "top"
    /\ UNCHANGED stop_reason

\* variant: the offset advances by the requested batch size
AutoSuccessPath_AdvancesByBatchSize(start, len) ==
    /\ total_processed' = total_processed + len
    /\ current_offset' = current_offset + batch_size
    /\ consecutive_failures' = 0
    /\ batch_size' = IF batch_count % AutoGrowEvery = 0 /\ batch_size < AutoCeiling
                       THEN Min(batch_size + AutoGrowStep, AutoCeiling)
                       ELSE batch_size
    /\ size_at_offset' = batch_size'
    /\ last' = [start |-> start, len |-> len, result |-> "success"]
    /\ pc' = "top"
    /\ UNCHANGED stop_reason

\* variant: a success leaves the failure count as it is
AutoSuccessPath_KeepsFailureCount(start, len) ==
    /\ total_processed' = total_processed + len
    /\ current_offset' = current_offset + len
    /\ consecutive_failures' = consecutive_failures
    /\ batch_size' = IF batch_count % AutoGrowEvery = 0 /\ batch_size < AutoCeiling
                       THEN Min(batch_size + AutoGrowStep, AutoCeiling)
                       ELSE batch_size
    /\ size_at_offset' = batch_size'
    /\ last' = [start |-> start, len |-> len, result |-> "success"]
    /\ pc' = "top"
    /\ UNCHANGED stop_reason

\* the if-branch of continuous_auto_migrate (lines 116-133)
AutoSuccessPath(start, len) ==
    /\ total_processed' = total_processed + len
    /\ current_offset' = current_offset + len
    /\ consecutive_failures' = 0
    /\ batch_size' = IF batch_count % AutoGrowEvery = 0 /\ batch_size < AutoCeiling
                       THEN Min(batch_size + AutoGrowStep, AutoCeiling)
                       ELSE batch_size
    /\ size_at_offset' = batch_size'
    /\ last' = [start |-> start, len |-> len, result |-> "success"]
    /\ pc' = "top"
    /\ UNCHANGED stop_reason

\* the pause of the failure branch: none when the loop is left at the
\* failure limit, else time.sleep(5) whatever the number of failures
AutoSleepAfterFailure ==
    IF consecutive_failures + 1 >= AutoFailureLimit THEN slept ELSE AutoRetrySleep

\* top of the while loop up to the executor call inside
\* generate_and_execute_batch; an empty page returns (False, 0, ...) without
\* calling the executor and the caller takes its failure branch
AutoFetch ==
    /\ script = "auto"
    /\ pc = "top"
    /\ UNCHANGED exec_failures
    /\ IF current_offset < target_total
         THEN /\ batch_count' = batch_count + 1
              /\ LET len == PageLen(table_count, current_offset, batch_size) IN
                 IF len = 0
                   THEN /\ AutoFailurePath(current_offset, 0, "empty")
                        /\ inflight' = NoPage
                        /\ slept' = AutoSleepAfterFailure
                   ELSE /\ pc' = "executing"
                        /\ inflight' = [start |-> current_offset, len |-> len]
                        /\ UNCHANGED << current_offset, batch_size, total_processed,
                                        consecutive_failures, last, stop_reason,
                                        size_at_offset, slept >>
         ELSE /\ pc' = "stopped"
              /\ stop_reason' = "target"
              /\ UNCHANGED << current_offset, batch_size, batch_count,
                              total_processed, consecutive_failures, inflight,
                              last, size_at_offset, slept >>
    /\ UNCHANGED << sink_rows, fail_run, success_count, channel_calls >>
    /\ UNCHANGED << script, table_count, start_offset, target_total >>
    /\ UNCHANGED << tm, orch, rs, pagevars >>

\* execute_mcp_batch returns: returncode 0 -> True; non-zero, timeout or any
\* exception -> False
AutoExecutorOutcomes == { "ok", "error", "timeout", "exception" }

\* variant: a timeout is taken for a success
execute_mcp_batch_TimeoutSucceeds(outcome) == outcome \in { "ok", "timeout" }

execute_mcp_batch(outcome) == outcome = "ok"

\* execute_mcp_batch calls subprocess.run once, whatever comes back
AutoChannelCalls(outcome) == 1

AutoSettle(outcome) ==
    /\ script = "auto"
    /\ pc = "executing"
    /\ \/ execute_mcp_batch(outcome)
       \/ exec_failures < MaxExecutorFailures
       \/ consecutive_failures + 1 >= AutoFailureLimit
    /\ inflight' = NoPage
    /\ channel_calls' = channel_calls + AutoChannelCalls(outcome)
    /\ IF execute_mcp_batch(outcome)
         THEN /\ AutoSuccessPath(inflight.start, inflight.len)
              /\ fail_run' = 0
              /\ exec_failures' = exec_failures
              /\ success_count' = success_count + 1
              /\ slept' = AutoPause
         ELSE /\ AutoFailurePath(inflight.start, inflight.len, "failure")
              /\ fail_run' = fail_run + 1
              /\ exec_failures' = exec_failures + 1
              /\ success_count' = success_count
              /\ slept' = AutoSleepAfterFailure
    /\ sink_rows' = IF outcome = "ok" THEN sink_rows + inflight.len ELSE sink_rows
    /\ UNCHANGED << script, table_count, start_offset, target_total, batch_count >>
    /\ UNCHANGED << tm, orch, rs, pagevars >>

\* ------------------------------------------------ auto-mcp-turbo.py
\* execute_via_mcp_auto runs a python3 -c wrapper around the cascade call and
\* looks only at the wrapper's exit code: the wrapper exits 0 whether cascade
\* applied the statement ("ok") or rejected it ("rejected"); it exits
\* non-zero when the wrapper itself raises ("exception"); a timeout of the
\* wrapper is caught ("timeout")
TurboExecutorOutcomes == { "ok", "rejected", "timeout", "exception" }

execute_via_mcp_auto(outcome) == outcome \in { "ok", "rejected" }

\* execute_via_mcp_auto calls subprocess.run once, whatever comes back
TurboChannelCalls(outcome) == 1

TurboFetch ==
    /\ script = "turbo"
    /\ pc = "top"
    /\ UNCHANGED exec_failures
    /\ IF current_offset < target_total
         THEN /\ batch_count' = batch_count + 1
              /\ LET len == PageLen(table_count, current_offset, batch_size) IN
                 IF len = 0
                   THEN /\ pc' = "stopped"
                        /\ stop_reason' = "empty"
                        /\ last' = [start |-> current_offset, len |-> 0, result |-> "empty"]
                        /\ inflight' = NoPage
                   ELSE /\ pc' = "executing"
                        /\ inflight' = [start |-> current_offset, len |-> len]
                        /\ UNCHANGED << last, stop_reason >>
         ELSE /\ pc' = "stopped"
              /\ stop_reason' = "target"
              /\ UNCHANGED << batch_count, inflight, last >>
    /\ UNCHANGED << script, table_count, start_offset, target_total, size_at_offset,
                    current_offset, batch_size,
                    total_processed, consecutive_failures, sink_rows, fail_run >>
    /\ UNCHANGED << success_count, slept, channel_calls, tm, orch, rs, pagevars >>

TurboSettle(outcome) ==
    /\ script = "turbo"
    /\ pc = "executing"
    /\ execute_via_mcp_auto(outcome) \/ exec_failures < MaxTurboFailures
    /\ exec_failures' = IF execute_via_mcp_auto(outcome) THEN exec_failures
                                                         ELSE exec_failures + 1
    /\ inflight' = NoPage
    /\ pc' = "top"
    /\ IF execute_via_mcp_auto(outcome)
         THEN /\ total_processed' = total_processed + inflight.len
              /\ current_offset' = current_offset + inflight.len
              /\ last' = [start |-> inflight.start, len |-> inflight.len, result |-> "success"]
              /\ fail_run' = 0
              /\ success_count' = success_count + 1
              /\ slept' = TurboPause
         ELSE /\ last' = [start |-> inflight.start, len |-> inflight.len, result |-> "failure"]
              /\ fail_run' = fail_run + 1
              /\ slept' = TurboRetrySleep
              /\ UNCHANGED << total_processed, current_offset, success_count >>
    /\ channel_calls' = channel_calls + TurboChannelCalls(outcome)
    /\ sink_rows' = IF outcome = "ok" THEN sink_rows + inflight.len ELSE sink_rows
    /\ UNCHANGED << script, table_count, start_offset, target_total, size_at_offset,
                    batch_size, batch_count,
                    consecutive_failures, stop_reason >>
    /\ UNCHANGED << tm, orch, rs, pagevars >>

\* ------------------------------------------------ continuous-migrate.py
ContinuousStartOffset == 68
ContinuousBatch == 3000
ContinuousTargetTotal == 1736174
ContinuousTableSizes == { 0, 68, 70, 9068, 1750000 }

\* what a page query can do: return its rows, or raise (caught by the
\* caller's except clause)
FetchOutcomes == { "rows", "db_error" }

\* one iteration of main's while loop; migrate_raw_batch only prints the
\* statements it builds and returns the page length (0 on an empty page or
\* on a caught exception)
ContinuousIteration(fetch) ==
    /\ script = "continuous"
    /\ pc = "top"
    /\ IF current_offset < target_total
         THEN LET len == IF fetch = "rows"
                           THEN PageLen(table_count, current_offset, batch_size)
                           ELSE 0 IN
              IF len = 0
                THEN /\ pc' = "stopped"
                     /\ stop_reason' = IF fetch = "rows" THEN "empty" ELSE "db_error"
                     /\ last' = [start |-> current_offset, len |-> 0,
                                 result |-> IF fetch = "rows" THEN "empty" ELSE "failure"]
                     /\ UNCHANGED current_offset
                ELSE /\ current_offset' = current_offset + len
                     /\ last' = [start |-> current_offset, len |-> len, result |-> "printed"]
                     /\ UNCHANGED << pc, stop_reason >>
         ELSE /\ fetch = "rows"
              /\ pc' = "stopped"
              /\ stop_reason' = "target"
              /\ UNCHANGED << current_offset, last >>
    /\ UNCHANGED << script, table_count, start_offset, target_total, size_at_offset,
                    batch_size, batch_count, total_processed, consecutive_failures,
                    inflight, sink_rows, fail_run, exec_failures >>
    /\ UNCHANGED << success_count, slept, channel_calls, tm, orch, rs, pagevars >>

\* ------------------------------------------------ ultra-fast-migrate.py
UltraDefaultBatch == 25000
UltraStartOffsets == { 0, 5 }
UltraBatchSizes == { 5, UltraDefaultBatch }
UltraTableSizes == { 0, 12, 60000 }

\* execute_via_mcp prints the statement and returns True
execute_via_mcp == TRUE

\* one iteration of main's while True loop, migrate_raw_ultra_batch included
UltraIteration ==
    /\ script = "ultra"
    /\ pc = "top"
    /\ LET len == PageLen(table_count, current_offset, batch_size)
           processed == IF len = 0 THEN 0
                        ELSE IF execute_via_mcp THEN len ELSE 0 IN
       IF processed = 0
         THEN /\ pc' = "stopped"
              /\ stop_reason' = IF len = 0 THEN "empty" ELSE "failures"
              /\ last' = [start |-> current_offset, len |-> len,
                          result |-> IF len = 0 THEN "empty" ELSE "failure"]
              /\ UNCHANGED << current_offset, total_processed >>
         ELSE /\ total_processed' = total_processed + processed
              /\ current_offset' = current_offset + processed
              /\ last' = [start |-> current_offset, len |-> len, result |-> "success"]
              /\ UNCHANGED << pc, stop_reason >>
    /\ UNCHANGED << script, table_count, start_offset, target_total, size_at_offset,
                    batch_size, batch_count, consecutive_failures,
                    inflight, sink_rows, fail_run, exec_failures >>
    /\ UNCHANGED << success_count, slept, channel_calls, tm, orch, rs, pagevars >>

\* ------------------------------------------------ optimized-migrate.py
OptimizedDefaultBatch == 25000
OptimizedStartOffsets == { 0, 68 }
OptimizedBatchSizes == { 5, OptimizedDefaultBatch }
OptimizedTableSizes == { 0, 12, 60000 }

\* get_table_count: SELECT COUNT(*), or 0 when the query raises
get_table_count(n) == { n, 0 }

\* one iteration of migrate_table's while loop; generate_batch_insert builds
\* the envelope, the loop prints it and advances
OptimizedIteration(fetch) ==
    /\ script = "optimized"
    /\ pc = "top"
    /\ IF current_offset < target_total
         THEN /\ batch_count' = batch_count + 1
              /\ LET migrated == IF fetch = "rows"
                                   THEN PageLen(table_count, current_offset, batch_size)
                                   ELSE 0 IN
                 IF migrated = 0
                   THEN /\ pc' = "stopped"
                        /\ stop_reason' = IF fetch = "rows" THEN "empty" ELSE "db_error"
                        /\ last' = [start |-> current_offset, len |-> 0,
                                    result |-> IF fetch = "rows" THEN "empty" ELSE "failure"]
                        /\ UNCHANGED current_offset
                   ELSE /\ current_offset' = current_offset + migrated
                        /\ last' = [start |-> current_offset, len |-> migrated,
                                    result |-> "printed"]
                        /\ UNCHANGED << pc, stop_reason >>
         ELSE /\ fetch = "rows"
              /\ pc' = "stopped"
              /\ stop_reason' = "target"
              /\ UNCHANGED << current_offset, batch_count, last >>
    /\ UNCHANGED << script, table_count, start_offset, target_total, size_at_offset,
                    batch_size, total_processed, consecutive_failures,
                    inflight, sink_rows, fail_run, exec_failures >>
    /\ UNCHANGED << success_count, slept, channel_calls, tm, orch, rs, pagevars >>

\* ------------------------------------------------ mcp-direct-migrate.py
MCPDirectDefaultStart == 70
MCPDirectDefaultBatch == 10000
MCPDirectStartOffsets == { 0, MCPDirectDefaultStart }
MCPDirectBatchSizes == { 5, MCPDirectDefaultBatch }
MCPDirectTableSizes == { 0, 12, 25070 }

\* the child process migrate-data-mcp.py prints the statements of the page
\* and exits 0 ("exit0"), exits non-zero ("nonzero"), or cannot be started
\* ("exception")
SubprocessOutcomes == { "exit0", "nonzero", "exception" }

\* MCPDirectMigrator.migrate_batch: batch_size on exit code 0, else 0
migrate_batch(outcome, bsize) == IF outcome = "exit0" THEN bsize ELSE 0

\* one iteration of migrate_continuous' while loop
MCPDirectIteration(outcome) ==
    /\ script = "mcpdirect"
    /\ pc = "top"
    /\ IF current_offset < target_total
         THEN /\ batch_count' = batch_count + 1
              /\ LET migrated == migrate_batch(outcome, batch_size)
                     len == PageLen(table_count, current_offset, batch_size) IN
                 IF migrated = 0
                   THEN /\ pc' = "stopped"
                        /\ stop_reason' = "failures"
                        /\ last' = [start |-> current_offset, len |-> len,
                                    result |-> "failure"]
                        /\ UNCHANGED current_offset
                   ELSE /\ current_offset' = current_offset + migrated
                        /\ last' = [start |-> current_offset, len |-> len,
                                    result |-> "printed"]
                        /\ UNCHANGED << pc, stop_reason >>
         ELSE /\ outcome = "exit0"
              /\ pc' = "stopped"
              /\ stop_reason' = "target"
              /\ UNCHANGED << current_offset, batch_count, last >>
    /\ UNCHANGED << script, table_count, start_offset, target_total, size_at_offset,
                    batch_size, total_processed, consecutive_failures,
                    inflight, sink_rows, fail_run, exec_failures >>
    /\ UNCHANGED << success_count, slept, channel_calls, tm, orch, rs, pagevars >>

\* ------------------------------------------------ execute-large-scale-pipeline.py
PipelineBatch == 2000
PipelineMaxBatches == 10
PipelineSteps == 4

\* subprocess.run inside execute_mcp_sql: exit code 0, another exit code, no
\* exit within the timeout, or an exception other than TimeoutExpired
PipelineOutcomes == { "ok", "nonzero", "timeout", "exception" }

\* execute_mcp_sql: True on exit code 0, False on another exit code or on
\* TimeoutExpired; nothing else is caught
execute_mcp_sql(outcome) == outcome = "ok"

\* execute_mcp_sql calls subprocess.run once
PipelineChannelCalls(outcome) == 1

\* one of main's four statements (batch_count counts the statements sent);
\* only the result of the first one is looked at
PipelineStep(outcome) ==
    /\ script = "pipeline"
    /\ pc = "top"
    /\ batch_count' = batch_count + 1
    /\ channel_calls' = channel_calls + PipelineChannelCalls(outcome)
    /\ IF outcome = "exception"
         THEN /\ pc' = "stopped"
              /\ stop_reason' = "exception"
              /\ last' = [start |-> batch_count, len |-> 0, result |-> "raised"]
              /\ UNCHANGED total_processed
         ELSE /\ pc' = IF batch_count + 1 = PipelineSteps THEN "stopped" ELSE "top"
              /\ stop_reason' = IF batch_count + 1 = PipelineSteps THEN "summary" ELSE stop_reason
              /\ last' = [start |-> batch_count, len |-> 0,
                          result |-> IF execute_mcp_sql(outcome) THEN "success" ELSE "failure"]
              /\ total_processed' =
                     IF batch_count = 0 /\ execute_mcp_sql(outcome)
                       THEN total_processed + batch_size * PipelineMaxBatches
                       ELSE total_processed
    /\ UNCHANGED << script, table_count, start_offset, target_total, size_at_offset,
                    current_offset, batch_size, consecutive_failures, inflight,
                    sink_rows, fail_run, exec_failures, success_count, slept >>
    /\ UNCHANGED << tm, orch, rs, pagevars >>

\* ------------------------------------------------ turbo-migrate.py
TMDefaultBatch == 10000
TMWorkerBatch == 10000
TMTargetTotal == 1736174

\* command lines the program is checked on: start offsets close enough to
\* the hard-coded target for the offset queue to hold 1 to 4 entries, batch
\* sizes below, at and above the size the workers fetch, 1 or 2 workers
TMStartOffsets == { 1716174 }
TMBatchSizes == { 5000, TMDefaultBatch, 20000 }
TMWorkerCounts == { 1, 2 }
\* a table that ends at the start offset, one that ends inside the first
\* page, one that ends at the target and one that is larger
TMTableSizes == { 1716174, 1720000, 1736174, 1750000 }

\* the value put on the offset queue to stop a worker
None == -1

NoTurboMigrate == [main |-> "none"]
NoOrchestrator == [main |-> "none"]
NoResend == [phase |-> "none"]
NoOutput == << >>
NoResume == [runs |-> 0]
NoCodec == [phase |-> "none"]
NoFetch == [phase |-> "none"]

InitPages ==
    /\ out = NoOutput
    /\ rn = NoResume
    /\ cv = NoCodec
    /\ rsrc = NoFetch

\* (remaining + batch_size - 1) // batch_size
TotalBatches(start, bsize) == ((TMTargetTotal - start) + bsize - 1) \div bsize

\* the offsets main puts on the queue: start, start + batch_size, ...
RECURSIVE FillQueue(_, _, _)
FillQueue(offset, bsize, n) ==
    IF n = 0 THEN << >> ELSE << offset >> \o FillQueue(offset + bsize, bsize, n - 1)

\* the offsets on the queue, as a set
QueuedOffsets(start, bsize) ==
    { start + i * bsize : i \in 0 .. (TotalBatches(start, bsize) - 1) }

\* turbo-migrate's execute_mcp_sql prints the statement and returns True
print_mcp_sql == TRUE

\* main up to the start of the monitor loop: both queues created, the
\* offset queue filled, the workers started
InitTurboMigrate ==
    /\ script = "turbomigrate"
    /\ table_count \in TMTableSizes
    /\ start_offset \in TMStartOffsets
    /\ batch_size \in TMBatchSizes
    /\ target_total = TMTargetTotal
    /\ InitLocals
    /\ \E max_workers \in TMWorkerCounts :
         tm = [ main              |-> "monitor",
                max_workers       |-> max_workers,
                total_batches     |-> TotalBatches(start_offset, batch_size),
                offset_queue      |-> FillQueue(start_offset, batch_size,
                                               TotalBatches(start_offset, batch_size)),
                results_queue     |-> << >>,
                worker            |-> [w \in 1..max_workers |->
                                         [pc |-> "get", offset |-> -1, count |-> 0]],
                completed_batches |-> 0,
                total_records     |-> 0,
                sentinels         |-> 0,
                interrupted       |-> FALSE,
                recorded          |-> {},
                taken             |-> [q \in QueuedOffsets(start_offset, batch_size) |-> 0],
                executed          |-> [q \in QueuedOffsets(start_offset, batch_size) |-> 0],
                executed_rows     |-> 0 ]
    /\ orch = NoOrchestrator
    /\ rs = NoResend
    /\ InitPages

\* a worker's offset_queue.get(timeout=1) and what follows up to the
\* executor call: queue.Empty and None end the worker; an offset is paged
\* with the fixed size 10000; nothing is sent or reported for an empty page
\* or a page query that failed (generate_mega_batch returns None, 0)
WorkerGet(w, fetch) ==
    /\ script = "turbomigrate"
    /\ w \in DOMAIN tm.worker
    /\ tm.worker[w].pc = "get"
    /\ IF tm.offset_queue = << >>
         THEN /\ fetch = "rows"
              /\ tm' = [tm EXCEPT !.worker[w].pc = "done"]
         ELSE LET offset == Head(tm.offset_queue)
                  count == IF fetch = "rows"
                             THEN PageLen(table_count, offset, TMWorkerBatch)
                             ELSE 0 IN
              IF offset = None
                THEN /\ fetch = "rows"
                     /\ tm' = [tm EXCEPT !.offset_queue = Tail(@),
                                         !.worker[w].pc = "done"]
                ELSE IF count = 0
                       THEN tm' = [tm EXCEPT !.offset_queue = Tail(@),
                                             !.taken[offset] = @ + 1]
                       ELSE tm' = [tm EXCEPT !.offset_queue = Tail(@),
                                             !.taken[offset] = @ + 1,
                                             !.worker[w] = [pc |-> "execute",
                                                            offset |-> offset,
                                                            count |-> count]]
    /\ UNCHANGED << ctlvars, orch, rs, pagevars >>

\* the worker's execute_mcp_sql call and results_queue.put
WorkerExecute(w) ==
    /\ script = "turbomigrate"
    /\ w \in DOMAIN tm.worker
    /\ tm.worker[w].pc = "execute"
    /\ tm' = [tm EXCEPT !.results_queue =
                            Append(@, [worker_id |-> w,
                                       offset |-> tm.worker[w].offset,
                                       count |-> tm.worker[w].count,
                                       success |-> print_mcp_sql]),
                        !.executed[tm.worker[w].offset] = @ + 1,
                        !.executed_rows = @ + tm.worker[w].count,
                        !.worker[w] = [pc |-> "get", offset |-> -1, count |-> 0]]
    /\ UNCHANGED << ctlvars, orch, rs, pagevars >>

\* variant: the rows of a result are added twice
MonitorGet_CountsTwice ==
    /\ script = "turbomigrate"
    /\ tm.main = "monitor"
    /\ tm.completed_batches < tm.total_batches
    /\ tm.results_queue # << >>
    /\ LET r == Head(tm.results_queue) IN
       tm' = [tm EXCEPT !.results_queue = Tail(@),
                        !.completed_batches = @ + 1,
                        !.total_records = @ + r.count + r.count,
                        !.recorded = @ \cup { r.offset }]
    /\ UNCHANGED << ctlvars, orch, rs, pagevars >>

\* one pass of main's monitor loop that finds a result (a pass that times
\* out on an empty results queue changes nothing)
MonitorGet ==
    /\ script = "turbomigrate"
    /\ tm.main = "monitor"
    /\ tm.completed_batches < tm.total_batches
    /\ tm.results_queue # << >>
    /\ LET r == Head(tm.results_queue) IN
       tm' = [tm EXCEPT !.results_queue = Tail(@),
                        !.completed_batches = @ + 1,
                        !.total_records = @ + r.count,
                        !.recorded = @ \cup { r.offset }]
    /\ UNCHANGED << ctlvars, orch, rs, pagevars >>

\* the monitor loop's condition fails
MonitorExit ==
    /\ script = "turbomigrate"
    /\ tm.main = "monitor"
    /\ tm.completed_batches >= tm.total_batches
    /\ tm' = [tm EXCEPT !.main = "stopping"]
    /\ UNCHANGED << ctlvars, orch, rs, pagevars >>

\* Ctrl-C during the monitor loop: caught by main's except KeyboardInterrupt
MonitorInterrupt ==
    /\ script = "turbomigrate"
    /\ tm.main = "monitor"
    /\ tm' = [tm EXCEPT !.main = "stopping", !.interrupted = TRUE]
    /\ UNCHANGED << ctlvars, orch, rs, pagevars >>

\* "for _ in workers: offset_queue.put(None)": one put; the queue is FIFO
StopWorkers ==
    /\ script = "turbomigrate"
    /\ tm.main = "stopping"
    /\ tm' = [tm EXCEPT !.offset_queue = Append(@, None),
                        !.sentinels = @ + 1,
                        !.main = IF tm.sentinels + 1 = tm.max_workers
                                   THEN "joining" ELSE "stopping"]
    /\ UNCHANGED << ctlvars, orch, rs, pagevars >>

\* "for worker in workers: worker.join()" returns
JoinWorkers ==
    /\ script = "turbomigrate"
    /\ tm.main = "joining"
    /\ \A w \in DOMAIN tm.worker : tm.worker[w].pc = "done"
    /\ tm' = [tm EXCEPT !.main = "done"]
    /\ UNCHANGED << ctlvars, orch, rs, pagevars >>

NextTurboMigrate ==
    \/ \E w \in DOMAIN tm.worker, f \in FetchOutcomes : WorkerGet(w, f)
    \/ \E w \in DOMAIN tm.worker : WorkerExecute(w)
    \/ MonitorGet
    \/ MonitorExit
    \/ MonitorInterrupt
    \/ StopWorkers
    \/ JoinWorkers

SpecTurboMigrate == InitTurboMigrate /\ [][NextTurboMigrate]_vars

\* ------------------------------------------------ hybrid-migrate.py, parallel-migrate.py
Tables == { "raw", "normalized" }

HybridRawBatch == 25000
HybridNormalizedBatch == 30000
HybridRawStart == 68
HybridNormalizedStart == 0
ParallelRawBatch == 8000
ParallelNormalizedBatch == 6000
ParallelRawStart == 68
ParallelNormalizedStart == 0

\* table sizes: a table that ends before the start offset or is empty, one
\* short page, and two pages and a rest
HybridRawSizes == { 50, 30000, 60068 }
HybridNormalizedSizes == { 0, 20000, 70000 }
ParallelRawSizes == { 50, 5000, 20068 }
ParallelNormalizedSizes == { 0, 4000, 15000 }

\* a controller thread before its first loop test; total_records is what
\* get_table_count returned (the count, or 0 when the query raised)
Controller(rows, total, start, bsize) ==
    [ pc |-> "top", offset |-> start, total_records |-> total, rows |-> rows,
      start_offset |-> start, batch_size |-> bsize, stop |-> "none",
      inflight |-> NoPage, channel |-> "idle", batches |-> << >>, acked |-> 0 ]

\* main of hybrid-migrate.py up to raw_thread.join(): both threads started
InitHybrid ==
    /\ script = "hybrid"
    /\ \E rraw \in HybridRawSizes, rnorm \in HybridNormalizedSizes :
       \E traw \in get_table_count(rraw), tnorm \in get_table_count(rnorm) :
         orch = [ main |-> "raw",
                  ctl  |-> [t \in Tables |->
                     IF t = "raw"
                       THEN Controller(rraw, traw, HybridRawStart, HybridRawBatch)
                       ELSE Controller(rnorm, tnorm, HybridNormalizedStart,
                                       HybridNormalizedBatch)] ]

\* main of parallel-migrate.py up to raw_thread.join()
InitParallel ==
    /\ script = "parallel"
    /\ \E rraw \in ParallelRawSizes, rnorm \in ParallelNormalizedSizes :
       \E traw \in get_table_count(rraw), tnorm \in get_table_count(rnorm) :
         orch = [ main |-> "raw",
                  ctl  |-> [t \in Tables |->
                     IF t = "raw"
                       THEN Controller(rraw, traw, ParallelRawStart, ParallelRawBatch)
                       ELSE Controller(rnorm, tnorm, ParallelNormalizedStart,
                                       ParallelNormalizedBatch)] ]

InitOrchestrator ==
    /\ InitHybrid \/ InitParallel
    /\ table_count = 0
    /\ start_offset = 0
    /\ batch_size = 0
    /\ target_total = -1
    /\ InitLocals
    /\ tm = NoTurboMigrate
    /\ rs = NoResend
    /\ InitPages

\* the external channel behind HybridMigrator.execute_sql_via_mcp: the child
\* process ends ("responds") or never does ("silent")
ChannelBehaviours == { "responds", "silent" }

\* HybridMigrator.migrate_table, from the loop test to the executor call:
\* leaves the loop when the offset reached total_records or when
\* generate_batch_sql returned no rows (empty page, or a caught exception)
HybridFetch(t, fetch, behaviour) ==
    /\ script = "hybrid"
    /\ orch.ctl[t].pc = "top"
    /\ LET c == orch.ctl[t]
           migrated == IF fetch = "rows"
                         THEN PageLen(c.rows, c.offset, c.batch_size) ELSE 0 IN
       IF c.offset < c.total_records
         THEN IF migrated = 0
                THEN /\ behaviour = "responds"
                     /\ orch' = [orch EXCEPT !.ctl[t].pc = "done",
                                             !.ctl[t].stop =
                                                IF fetch = "rows" THEN "empty"
                                                                  ELSE "db_error"]
                ELSE orch' = [orch EXCEPT !.ctl[t].pc = "executing",
                                          !.ctl[t].channel = behaviour,
                                          !.ctl[t].inflight =
                                             [start |-> c.offset, len |-> migrated],
                                          !.ctl[t].batches =
                                             Append(@, [start |-> c.offset,
                                                        len |-> migrated])]
         ELSE /\ fetch = "rows"
              /\ behaviour = "responds"
              /\ orch' = [orch EXCEPT !.ctl[t].pc = "done",
                                      !.ctl[t].stop = "complete"]
    /\ UNCHANGED << ctlvars, tm, rs, pagevars >>

\* variant: a failed batch is skipped (offset moved past it)
HybridSettle_SkipsFailedBatch(t, outcome) ==
    /\ script = "hybrid"
    /\ orch.ctl[t].pc = "executing"
    /\ orch.ctl[t].channel = "responds"
    /\ LET c == orch.ctl[t] IN
       IF outcome = "exit0"
         THEN orch' = [orch EXCEPT !.ctl[t].pc = "top",
                                   !.ctl[t].channel = "idle",
                                   !.ctl[t].inflight = NoPage,
                                   !.ctl[t].offset = @ + c.inflight.len,
                                   !.ctl[t].acked = @ + c.inflight.len]
         ELSE orch' = [orch EXCEPT !.ctl[t].pc = "done",
                                   !.ctl[t].channel = "idle",
                                   !.ctl[t].inflight = NoPage,
                                   !.ctl[t].offset = @ + c.inflight.len,
                                   !.ctl[t].stop = "failed"]
    /\ UNCHANGED << ctlvars, tm, rs, pagevars >>

\* variant: a failed batch of one table ends every controller
HybridSettle_StopsAll(t, outcome) ==
    /\ script = "hybrid"
    /\ orch.ctl[t].pc = "executing"
    /\ orch.ctl[t].channel = "responds"
    /\ LET c == orch.ctl[t] IN
       IF outcome = "exit0"
         THEN orch' = [orch EXCEPT !.ctl[t].pc = "top",
                                   !.ctl[t].channel = "idle",
                                   !.ctl[t].inflight = NoPage,
                                   !.ctl[t].offset = @ + c.inflight.len,
                                   !.ctl[t].acked = @ + c.inflight.len]
         ELSE orch' = [orch EXCEPT !.ctl =
                          [u \in Tables |->
                             [orch.ctl[u] EXCEPT !.pc = "done", !.channel = "idle",
                                                 !.inflight = NoPage,
                                                 !.stop = "failed"]]]
    /\ UNCHANGED << ctlvars, tm, rs, pagevars >>

\* subprocess.run inside execute_sql_via_mcp returns (it has no timeout:
\* nothing happens while the channel is silent), then the rest of the loop
\* body: advance on success, leave the loop on failure
HybridSettle(t, outcome) ==
    /\ script = "hybrid"
    /\ orch.ctl[t].pc = "executing"
    /\ orch.ctl[t].channel = "responds"
    /\ LET c == orch.ctl[t] IN
       IF outcome = "exit0"
         THEN orch' = [orch EXCEPT !.ctl[t].pc = "top",
                                   !.ctl[t].channel = "idle",
                                   !.ctl[t].inflight = NoPage,
                                   !.ctl[t].offset = @ + c.inflight.len,
                                   !.ctl[t].acked = @ + c.inflight.len]
         ELSE orch' = [orch EXCEPT !.ctl[t].pc = "done",
                                   !.ctl[t].channel = "idle",
                                   !.ctl[t].inflight = NoPage,
                                   !.ctl[t].stop = "failed"]
    /\ UNCHANGED << ctlvars, tm, rs, pagevars >>

\* one iteration of parallel-migrate's migrate_table: migrate_batch prints
\* the page's statements and returns the page length, 0 on an empty page
\* or a caught exception
ParallelIteration(t, fetch) ==
    /\ script = "parallel"
    /\ orch.ctl[t].pc = "top"
    /\ LET c == orch.ctl[t]
           migrated == IF fetch = "rows"
                         THEN PageLen(c.rows, c.offset, c.batch_size) ELSE 0 IN
       IF c.offset < c.total_records
         THEN IF migrated = 0
                THEN orch' = [orch EXCEPT !.ctl[t].pc = "done",
                                          !.ctl[t].stop =
                                             IF fetch = "rows" THEN "empty"
                                                               ELSE "db_error"]
                ELSE orch' = [orch EXCEPT !.ctl[t].offset = @ + migrated,
                                          !.ctl[t].batches =
                                             Append(@, [start |-> c.offset,
                                                        len |-> migrated])]
         ELSE /\ fetch = "rows"
              /\ orch' = [orch EXCEPT !.ctl[t].pc = "done",
                                      !.ctl[t].stop = "complete"]
    /\ UNCHANGED << ctlvars, tm, rs, pagevars >>

\* parallel-migrate.py with its output stream: both threads print to the
\* same sys.stdout, migrate_batch prints the statements of a page one
\* print call at a time and nothing orders the print calls of the two
\* threads.  Tables of at most one page of two rows.
InitParallelOutput ==
    /\ script = "parallel"
    /\ \E rraw \in { 68, 69, 70 }, rnorm \in { 0, 1, 2 } :
       \E traw \in get_table_count(rraw), tnorm \in get_table_count(rnorm) :
         orch = [ main |-> "raw",
                  ctl  |-> [t \in Tables |->
                     IF t = "raw"
                       THEN Controller(rraw, traw, ParallelRawStart, ParallelRawBatch)
                       ELSE Controller(rnorm, tnorm, ParallelNormalizedStart,
                                       ParallelNormalizedBatch)],
                  sql_statements |-> [t \in Tables |-> << >>] ]
    /\ table_count = 0
    /\ start_offset = 0
    /\ batch_size = 0
    /\ target_total = -1
    /\ InitLocals
    /\ tm = NoTurboMigrate
    /\ rs = NoResend
    /\ InitPages

\* migrate_table's loop test and migrate_batch up to its print loop: the
\* page is read and sql_statements built as BEGIN;, one INSERT per row,
\* COMMIT;
ParallelBuild(t, fetch) ==
    /\ script = "parallel"
    /\ orch.ctl[t].pc = "top"
    /\ LET c == orch.ctl[t]
           migrated == IF fetch = "rows"
                         THEN PageLen(c.rows, c.offset, c.batch_size) ELSE 0 IN
       IF c.offset < c.total_records
         THEN IF migrated = 0
                THEN orch' = [orch EXCEPT !.ctl[t].pc = "done",
                                          !.ctl[t].stop =
                                             IF fetch = "rows" THEN "empty"
                                                               ELSE "db_error"]
                ELSE orch' = [orch EXCEPT
                        !.ctl[t].pc = "printing",
                        !.ctl[t].inflight = [start |-> c.offset, len |-> migrated],
                        !.sql_statements[t] =
                            [i \in 1 .. (migrated + 2) |->
                                [table |-> t,
                                 kind |-> IF i = 1 THEN "BEGIN"
                                          ELSE IF i = migrated + 2 THEN "COMMIT"
                                          ELSE "INSERT"]]]
         ELSE /\ fetch = "rows"
              /\ orch' = [orch EXCEPT !.ctl[t].pc = "done",
                                      !.ctl[t].stop = "complete"]
    /\ UNCHANGED << ctlvars, tm, rs, pagevars >>

\* variant: the statements of a page are written by one call
ParallelPrint_WholeBatch(t) ==
    /\ script = "parallel"
    /\ orch.ctl[t].pc = "printing"
    /\ out' = out \o orch.sql_statements[t]
    /\ orch' = [orch EXCEPT !.sql_statements[t] = << >>,
                            !.ctl[t].pc = "top",
                            !.ctl[t].inflight = NoPage,
                            !.ctl[t].offset = @ + orch.ctl[t].inflight.len]
    /\ UNCHANGED << ctlvars, tm, rs, rn, cv, rsrc >>

\* one pass of "for statement in sql_statements: print(statement)"; after
\* the last statement migrate_batch returns len(rows) and the offset moves on
ParallelPrint(t) ==
    /\ script = "parallel"
    /\ orch.ctl[t].pc = "printing"
    /\ out' = Append(out, Head(orch.sql_statements[t]))
    /\ IF Len(orch.sql_statements[t]) = 1
         THEN orch' = [orch EXCEPT !.sql_statements[t] = << >>,
                                   !.ctl[t].pc = "top",
                                   !.ctl[t].inflight = NoPage,
                                   !.ctl[t].offset = @ + orch.ctl[t].inflight.len]
         ELSE orch' = [orch EXCEPT !.sql_statements[t] = Tail(@)]
    /\ UNCHANGED << ctlvars, tm, rs, rn, cv, rsrc >>

\* raw_thread.join() then normalized_thread.join(): each returns once its
\* thread has ended
Join ==
    /\ script \in { "hybrid", "parallel" }
    /\ orch.main \in Tables
    /\ orch.ctl[orch.main].pc = "done"
    /\ orch' = [orch EXCEPT !.main = IF orch.main = "raw" THEN "normalized"
                                                          ELSE "returned"]
    /\ UNCHANGED << ctlvars, tm, rs, pagevars >>

\* the steps of the thread of table t
ThreadStep(t) ==
    \/ \E f \in FetchOutcomes, b \in ChannelBehaviours : HybridFetch(t, f, b)
    \/ \E o \in SubprocessOutcomes : HybridSettle(t, o)
    \/ \E f \in FetchOutcomes : ParallelIteration(t, f)

NextOrchestrator ==
    \/ \E t \in Tables : ThreadStep(t)
    \/ Join

SpecOrchestrator == InitOrchestrator /\ [][NextOrchestrator]_vars

SpecParallelOutput ==
    /\ InitParallelOutput
    /\ [][\/ \E t \in Tables : \E f \in FetchOutcomes : ParallelBuild(t, f)
          \/ \E t \in Tables : ParallelPrint(t)
          \/ Join]_vars

\* threads that can take a step eventually take one, and so does main
SpecOrchestratorFair ==
    /\ SpecOrchestrator
    /\ \A t \in Tables : WF_vars(ThreadStep(t))
    /\ WF_vars(Join)

\* ------------------------------------------------ insert envelopes and the sink
\* direct-mcp-migrate.py (generate_bulk_insert_sql) and mcp-auto-execute.py
\* (generate_and_execute_batch) build one INSERT for a page of raw; the row
\* at position p (ORDER BY id) is identified with the key p + 1.
ResendTableSizes == { 0, 3, 5 }
ResendOffsets == { 0, 2 }
ResendBatchSizes == { 2, 3 }
Builders == { "direct-mcp-migrate", "mcp-auto-execute" }

PageKeys(n, offset, limit) == (offset + 1) .. (offset + PageLen(n, offset, limit))

\* "BEGIN; INSERT INTO raw (...) VALUES ...; COMMIT;": no conflict clause
generate_bulk_insert_sql(n, offset, limit) ==
    [ keys |-> PageKeys(n, offset, limit), transaction |-> TRUE, on_conflict |-> FALSE ]

\* "INSERT INTO raw (...) VALUES ...;": no conflict clause
generate_and_execute_batch(n, offset, limit) ==
    [ keys |-> PageKeys(n, offset, limit), transaction |-> FALSE, on_conflict |-> FALSE ]

\* what the sink does with the statement of an envelope. Without a conflict
\* clause the statement fails as a whole when raw.id is a key of the sink
\* table and one of the rows is already there, and inserts every row again
\* when it is not a key; with a conflict clause the rows already there are
\* skipped. sink maps a key to the number of rows that carry it.
SinkApply(sink, env, id_is_key) ==
    IF env.on_conflict
      THEN [ result |-> "ok",
             sink |-> [k \in DOMAIN sink |->
                         IF k \in env.keys /\ sink[k] = 0 THEN 1 ELSE sink[k]] ]
      ELSE IF id_is_key /\ \E k \in env.keys : sink[k] > 0
             THEN [ result |-> "error", sink |-> sink ]
             ELSE [ result |-> "ok",
                    sink |-> [k \in DOMAIN sink |->
                                IF k \in env.keys THEN sink[k] + 1 ELSE sink[k]] ]

\* the keys of the rows of the largest source table
SinkKeys == 1 .. 5

NoEnvelope == [ keys |-> {}, transaction |-> FALSE, on_conflict |-> FALSE ]

InitResend ==
    /\ script = "resend"
    /\ table_count \in ResendTableSizes
    /\ start_offset \in ResendOffsets
    /\ batch_size \in ResendBatchSizes
    /\ target_total = -1
    /\ InitLocals
    /\ \E b \in Builders, id_is_key \in BOOLEAN :
         rs = [ phase |-> "idle", builder |-> b, id_is_key |-> id_is_key,
                sink |-> [k \in SinkKeys |-> 0], before |-> [k \in SinkKeys |-> 0],
                envelope |-> NoEnvelope, result |-> "none", sends |-> 0 ]
    /\ tm = NoTurboMigrate
    /\ orch = NoOrchestrator
    /\ InitPages

\* a page is read at current_offset and its envelope built; no rows, no
\* envelope
BuildEnvelope ==
    /\ script = "resend"
    /\ rs.phase = "idle"
    /\ IF PageLen(table_count, current_offset, batch_size) = 0
         THEN rs' = [rs EXCEPT !.phase = "done"]
         ELSE rs' = [rs EXCEPT !.phase = "built",
                               !.envelope =
                                  IF rs.builder = "direct-mcp-migrate"
                                    THEN generate_bulk_insert_sql(table_count,
                                            current_offset, batch_size)
                                    ELSE generate_and_execute_batch(table_count,
                                            current_offset, batch_size)]
    /\ UNCHANGED << ctlvars, tm, orch, pagevars >>

\* the envelope is executed on the sink: the first time, or again (after a
\* restart at the same offset, or after a failure that left it unknown
\* whether the statement had been applied)
SendEnvelope ==
    /\ script = "resend"
    /\ rs.phase \in { "built", "sent" }
    /\ rs.sends < MaxSends
    /\ LET r == SinkApply(rs.sink, rs.envelope, rs.id_is_key) IN
       rs' = [rs EXCEPT !.phase = "sent", !.before = rs.sink, !.sink = r.sink,
                        !.result = r.result, !.sends = @ + 1]
    /\ UNCHANGED << ctlvars, tm, orch, pagevars >>

\* the loop goes on to the next page
NextPage ==
    /\ script = "resend"
    /\ rs.phase = "sent"
    /\ rs.result = "ok"
    /\ current_offset' = current_offset + Cardinality(rs.envelope.keys)
    /\ rs' = [rs EXCEPT !.phase = "idle"]
    /\ UNCHANGED << script, table_count, start_offset, batch_size, batch_count,
                    total_processed, consecutive_failures, pc, inflight, last,
                    stop_reason, sink_rows, fail_run, exec_failures, target_total,
                    size_at_offset, success_count, slept, channel_calls, tm, orch, pagevars >>

NextResend ==
    \/ BuildEnvelope
    \/ SendEnvelope
    \/ NextPage

SpecResend == InitResend /\ [][NextResend]_vars

\* ------------------------------------------------ scripts that print envelopes
\* final-migrate.py, execute-migrate.py, direct-mcp-migrate.py,
\* automated-mcp-migrate.py and mega-batch-execute.py page raw with
\* ORDER BY id, print one envelope per page and print the offset to go on
\* from; three of them stop after max_batches pages.
FinalDefaultStart == 136
FinalDefaultBatch == 5000
FinalDefaultMaxBatches == 50
FinalChunkSize == 1000
ExecuteDefaultBatch == 5000
DirectMCPDefaultBatch == 1000
DirectMCPDefaultMaxBatches == 1000000
AutomatedDefaultStart == 156
AutomatedDefaultBatch == 20000
AutomatedDefaultMaxBatches == 100
MegaDefaultStart == 165
MegaDefaultBatch == 5000

Begin == [kind |-> "BEGIN", first |-> -1, count |-> 0]
Commit == [kind |-> "COMMIT", first |-> -1, count |-> 0]
\* "INSERT INTO raw (...) VALUES" followed by the value tuples of count rows
\* of the table, from position first on, and ";"
Insert(first, count) == [kind |-> "INSERT", first |-> first, count |-> count]

\* variant: a chunk takes one row more than chunk_size
RECURSIVE Chunks_Overlapping(_, _, _)
Chunks_Overlapping(first, n, i) ==
    IF i >= n THEN << >>
    ELSE << Insert(first + i, Min(FinalChunkSize + 1, n - i)) >>
           \o Chunks_Overlapping(first, n, i + FinalChunkSize)

\* "for i in range(0, len(values_list), chunk_size)": one INSERT statement
\* per slice values_list[i:i + chunk_size] of a page of n rows that starts
\* at position first
RECURSIVE Chunks(_, _, _)
Chunks(first, n, i) ==
    IF i >= n THEN << >>
    ELSE << Insert(first + i, Min(FinalChunkSize, n - i)) >>
           \o Chunks(first, n, i + FinalChunkSize)

\* a run of one of these scripts: the argument max_batches (-1 when the
\* script has none), the number of the run, the offset of the first run
\* and the pages printed by the runs so far
Run(max_batches) ==
    [ max_batches |-> max_batches, runs |-> 1, origin |-> start_offset,
      emitted |-> << >> ]

InitFinal ==
    /\ script = "final"
    /\ table_count \in { 0, 136, 1137, 2636, 7000 }
    /\ start_offset \in { 0, FinalDefaultStart }
    /\ batch_size \in { 999, 1000, 2500, FinalDefaultBatch }
    /\ \E m \in { 1, 2, FinalDefaultMaxBatches } : rn = Run(m)

InitExecute ==
    /\ script = "execute"
    /\ table_count \in { 0, 12, 15, 12000 }
    /\ start_offset \in { 0, 5 }
    /\ batch_size \in { 5, ExecuteDefaultBatch }
    /\ rn = Run(-1)

InitDirectMCP ==
    /\ script = "directmcp"
    /\ table_count \in { 0, 12, 15, 2500 }
    /\ start_offset \in { 0, 5 }
    /\ batch_size \in { 5, DirectMCPDefaultBatch }
    /\ \E m \in { 1, 2, DirectMCPDefaultMaxBatches } : rn = Run(m)

InitAutomated ==
    /\ script = "automated"
    /\ table_count \in { 0, 12, 166, 40200 }
    /\ start_offset \in { 0, AutomatedDefaultStart }
    /\ batch_size \in { 5, AutomatedDefaultBatch }
    /\ \E m \in { 1, 2, AutomatedDefaultMaxBatches } : rn = Run(m)

InitMega ==
    /\ script = "mega"
    /\ table_count \in { 0, 12, 175, 12000 }
    /\ start_offset \in { 0, MegaDefaultStart }
    /\ batch_size \in { 5, MegaDefaultBatch }
    /\ rn = Run(1)

InitPrinters ==
    /\ InitFinal \/ InitExecute \/ InitDirectMCP \/ InitAutomated \/ InitMega
    /\ target_total = -1
    /\ InitLocals
    /\ tm = NoTurboMigrate
    /\ orch = NoOrchestrator
    /\ rs = NoResend
    /\ out = NoOutput
    /\ cv = NoCodec
    /\ rsrc = NoFetch

\* what none of these scripts has or changes
PrinterFrame ==
    UNCHANGED << script, table_count, start_offset, batch_size, target_total,
                 consecutive_failures, inflight, sink_rows, fail_run,
                 exec_failures, size_at_offset, success_count, slept,
                 channel_calls, tm, orch, rs, cv, rsrc >>

\* variant: the offset moves on by the batch size, not by the rows printed
PrintPage_AdvancesByBatchSize(len, stmts) ==
    /\ current_offset' = current_offset + batch_size
    /\ last' = [start |-> current_offset, len |-> len, result |-> "printed"]
    /\ out' = stmts
    /\ rn' = [rn EXCEPT !.emitted = Append(@, [start |-> current_offset, len |-> len])]

\* a page of len rows is printed as the statements stmts and the offset
\* moves past it
PrintPage(len, stmts) ==
    /\ current_offset' = current_offset + len
    /\ last' = [start |-> current_offset, len |-> len, result |-> "printed"]
    /\ out' = stmts
    /\ rn' = [rn EXCEPT !.emitted = Append(@, [start |-> current_offset, len |-> len])]

\* the page query returned no rows: the loop is left
EmptyPage ==
    /\ pc' = "stopped"
    /\ stop_reason' = "empty"
    /\ last' = [start |-> current_offset, len |-> 0, result |-> "empty"]
    /\ UNCHANGED << current_offset, out, rn >>

\* final-migrate.py process_continuous_batches: one pass of
\* "for batch_num in range(1, max_batches + 1)", or the end of the range
FinalIteration ==
    /\ script = "final"
    /\ pc = "top"
    /\ LET len == PageLen(table_count, current_offset, batch_size) IN
       IF batch_count >= rn.max_batches
         THEN /\ pc' = "stopped"
              /\ stop_reason' = "max_batches"
              /\ UNCHANGED << current_offset, batch_count, last, out, rn >>
         ELSE IF len = 0
                THEN /\ EmptyPage
                     /\ batch_count' = batch_count + 1
                ELSE /\ PrintPage(len, << Begin >> \o Chunks(current_offset, len, 0)
                                                 \o << Commit >>)
                     /\ batch_count' = batch_count + 1
                     /\ UNCHANGED << pc, stop_reason >>
    /\ UNCHANGED total_processed
    /\ PrinterFrame

\* execute-migrate.py main: one pass of "while True"
ExecuteIteration ==
    /\ script = "execute"
    /\ pc = "top"
    /\ LET processed == PageLen(table_count, current_offset, batch_size) IN
       IF processed = 0
         THEN /\ EmptyPage
              /\ UNCHANGED batch_count
         ELSE /\ PrintPage(processed, << Begin, Insert(current_offset, processed),
                                         Commit >>)
              /\ batch_count' = batch_count + 1
              /\ UNCHANGED << pc, stop_reason >>
    /\ UNCHANGED total_processed
    /\ PrinterFrame

\* direct-mcp-migrate.py main: one pass of "while batch_count < max_batches",
\* or the failing loop test
DirectMCPIteration ==
    /\ script = "directmcp"
    /\ pc = "top"
    /\ LET record_count == PageLen(table_count, current_offset, batch_size) IN
       IF batch_count >= rn.max_batches
         THEN /\ pc' = "stopped"
              /\ stop_reason' = "max_batches"
              /\ UNCHANGED << current_offset, batch_count, last, out, rn >>
         ELSE IF record_count = 0
                THEN /\ EmptyPage
                     /\ UNCHANGED batch_count
                ELSE /\ PrintPage(record_count,
                                  << Begin, Insert(current_offset, record_count),
                                     Commit >>)
                     /\ batch_count' = batch_count + 1
                     /\ UNCHANGED << pc, stop_reason >>
    /\ UNCHANGED total_processed
    /\ PrinterFrame

\* automated-mcp-migrate.py main: one pass of "for i in range(max_batches)"
\* (batch_count is incremented before the page is read), or the end of the
\* range
AutomatedIteration ==
    /\ script = "automated"
    /\ pc = "top"
    /\ LET record_count == PageLen(table_count, current_offset, batch_size) IN
       IF batch_count >= rn.max_batches
         THEN /\ pc' = "stopped"
              /\ stop_reason' = "max_batches"
              /\ UNCHANGED << current_offset, batch_count, total_processed,
                              last, out, rn >>
         ELSE /\ batch_count' = batch_count + 1
              /\ IF record_count = 0
                   THEN /\ EmptyPage
                        /\ UNCHANGED total_processed
                   ELSE /\ PrintPage(record_count,
                                     << Insert(current_offset, record_count) >>)
                        /\ total_processed' = total_processed + record_count
                        /\ UNCHANGED << pc, stop_reason >>
    /\ PrinterFrame

\* mega-batch-execute.py main: one page, then the program ends
MegaBatch ==
    /\ script = "mega"
    /\ pc = "top"
    /\ LET count == PageLen(table_count, current_offset, batch_size) IN
       IF count = 0
         THEN EmptyPage
         ELSE /\ PrintPage(count, << Insert(current_offset, count) >>)
              /\ pc' = "stopped"
              /\ stop_reason' = "single"
    /\ UNCHANGED << batch_count, total_processed >>
    /\ PrinterFrame

\* the operator starts the script again with the offset the run printed
\* last ("final offset", "total offset", "Next run", "Next command") and
\* the same batch size and max_batches
Restart ==
    /\ script \in { "directmcp", "automated", "mega" }
    /\ pc = "stopped"
    /\ rn.runs < MaxRuns
    /\ start_offset' = current_offset
    /\ batch_count' = 0
    /\ total_processed' = 0
    /\ pc' = "top"
    /\ stop_reason' = "none"
    /\ last' = NoLast
    /\ out' = NoOutput
    /\ rn' = [rn EXCEPT !.runs = @ + 1]
    /\ UNCHANGED << script, table_count, current_offset, batch_size, target_total,
                    consecutive_failures, inflight, sink_rows, fail_run,
                    exec_failures, size_at_offset, success_count, slept,
                    channel_calls, tm, orch, rs, cv, rsrc >>

NextPrinters ==
    \/ FinalIteration
    \/ ExecuteIteration
    \/ DirectMCPIteration
    \/ AutomatedIteration
    \/ MegaBatch
    \/ Restart

SpecPrinters == InitPrinters /\ [][NextPrinters]_vars

\* ------------------------------------------------ page queries
\* The routines that read a page of raw: two issue
\* "SELECT ... FROM raw LIMIT ? OFFSET ?", one adds "ORDER BY id".  The rows
\* of the table are named by their ids 1 .. n.
FetchRoutines == { "migrate_raw_batch", "generate_batch_sql", "generate_bulk_insert_sql" }

\* the routine's query has an ORDER BY id clause
OrdersById(routine) == routine = "generate_bulk_insert_sql"

\* the orders in which a query may enumerate the n rows before LIMIT and
\* OFFSET are applied: ascending id under ORDER BY id; without ORDER BY the
\* order of the rows of a SELECT is unspecified, any order is a result the
\* query engine may return
ScanOrders(routine, n) ==
    IF OrdersById(routine)
      THEN { [i \in 1 .. n |-> i] }
      ELSE { p \in [1 .. n -> 1 .. n] : \A i, j \in 1 .. n : i # j => p[i] # p[j] }

\* "LIMIT limit OFFSET offset" applied to the enumeration order
Page(order, offset, limit) ==
    SubSeq(order, offset + 1, Min(Len(order), offset + limit))

InitFetch ==
    /\ script = "fetch"
    /\ table_count \in { 0, 2, 3 }
    /\ start_offset \in { 0, 1, 3 }
    /\ batch_size \in { 1, 2 }
    /\ target_total = -1
    /\ InitLocals
    /\ \E r \in FetchRoutines :
         rsrc = [ phase |-> "idle", routine |-> r, first |-> << >>, second |-> << >> ]
    /\ tm = NoTurboMigrate
    /\ orch = NoOrchestrator
    /\ rs = NoResend
    /\ out = NoOutput
    /\ rn = NoResume
    /\ cv = NoCodec

\* the routine is called with (current_offset, batch_size)
FetchPage ==
    /\ script = "fetch"
    /\ rsrc.phase = "idle"
    /\ \E order \in ScanOrders(rsrc.routine, table_count) :
         rsrc' = [rsrc EXCEPT !.phase = "fetched",
                              !.first = Page(order, current_offset, batch_size)]
    /\ UNCHANGED << ctlvars, tm, orch, rs, out, rn, cv >>

\* the routine is called again with the same arguments; the table has not
\* changed
FetchAgain ==
    /\ script = "fetch"
    /\ rsrc.phase = "fetched"
    /\ \E order \in ScanOrders(rsrc.routine, table_count) :
         rsrc' = [rsrc EXCEPT !.phase = "fetched twice",
                              !.second = Page(order, current_offset, batch_size)]
    /\ UNCHANGED << ctlvars, tm, orch, rs, out, rn, cv >>

NextFetch ==
    \/ FetchPage
    \/ FetchAgain

SpecFetch == InitFetch /\ [][NextFetch]_vars

\* ------------------------------------------------ value codec
\* A value read from SQLite is None, a str or a number; a literal of the
\* envelope is a str.  A str is the sequence of its characters.
Null == [kind |-> "none", s |-> << >>, n |-> 0]
Str(s) == [kind |-> "str", s |-> s, n |-> 0]
Num(n) == [kind |-> "int", s |-> << >>, n |-> n]

Quote == "'"
Chars == { "a", Quote, "\\" }
JsonChars == { "{", "}", "\"", Quote, " ", "a" }

\* the strings of at most n characters over the alphabet
StringsOver(alphabet, n) == UNION { [1 .. k -> alphabet] : k \in 0 .. n }

RECURSIVE Digits(_)
Digits(n) ==
    LET digit == << "0", "1", "2", "3", "4", "5", "6", "7", "8", "9" >> IN
    IF n < 10 THEN << digit[n + 1] >>
    ELSE Digits(n \div 10) \o << digit[(n % 10) + 1] >>

\* Python's str(value)
str(value) ==
    CASE value.kind = "none" -> << "N", "o", "n", "e" >>
      [] value.kind = "str" -> value.s
      [] value.kind = "int" -> IF value.n < 0 THEN << "-" >> \o Digits(0 - value.n)
                                              ELSE Digits(value.n)

\* variant: the quotes of the string are left as they are
replace_quotes_Unchanged(s) == s

\* s.replace("'", "''")
RECURSIVE replace_quotes(_)
replace_quotes(s) ==
    IF s = << >> THEN << >>
    ELSE (IF Head(s) = Quote THEN << Quote, Quote >> ELSE << Head(s) >>)
           \o replace_quotes(Tail(s))

NULL == << "N", "U", "L", "L" >>
JsonbCast == << ":", ":", "j", "s", "o", "n", "b" >>
EmptyObjectLiteral == << Quote, "{", "}", Quote >>

\* migrate-data-mcp.py escape_sql_string (continuous-migrate.py has the same
\* function)
escape_sql_string(value) ==
    IF value.kind = "none" THEN NULL
    ELSE << Quote >> \o replace_quotes(str(value)) \o << Quote >>

\* parallel-migrate.py SupabaseMigrator.escape_sql_string
SupabaseMigrator_escape_sql_string(value) ==
    IF value.kind = "none" THEN NULL
    ELSE << Quote >> \o replace_quotes(str(value)) \o << Quote >>

RECURSIVE StripLeft(_)
StripLeft(s) ==
    IF s # << >> /\ Head(s) = " " THEN StripLeft(Tail(s)) ELSE s

RECURSIVE StripRight(_)
StripRight(s) ==
    IF s # << >> /\ s[Len(s)] = " " THEN StripRight(SubSeq(s, 1, Len(s) - 1)) ELSE s

\* json.loads on a text over JsonChars: white space around the value is
\* skipped; the value is an empty object "{" spaces "}" or a string
\* '"' characters '"'; every other text raises
json_loads(text) ==
    LET t == StripRight(StripLeft(text))
        inner == SubSeq(t, 2, Len(t) - 1)
    IN  IF Len(t) >= 2 /\ t[1] = "{" /\ t[Len(t)] = "}"
           /\ \A i \in 1 .. Len(inner) : inner[i] = " "
          THEN [ok |-> TRUE, type |-> "object", s |-> << >>]
        ELSE IF Len(t) >= 2 /\ t[1] = "\"" /\ t[Len(t)] = "\""
                /\ \A i \in 1 .. Len(inner) : inner[i] # "\""
          THEN [ok |-> TRUE, type |-> "string", s |-> inner]
        ELSE [ok |-> FALSE, type |-> "error", s |-> << >>]

\* json.dumps of a value json_loads returned
json_dumps(parsed) ==
    IF parsed.type = "object" THEN << "{", "}" >>
    ELSE << "\"" >> \o parsed.s \o << "\"" >>

\* format_json_field (the same function in migrate-data-mcp.py,
\* parallel-migrate.py and continuous-migrate.py)
format_json_field(json_str) ==
    IF json_str.kind = "none" THEN NULL
    ELSE IF json_str.kind = "str" /\ json_loads(json_str.s).ok
      THEN << Quote >> \o replace_quotes(json_dumps(json_loads(json_str.s)))
                      \o << Quote >> \o JsonbCast
    ELSE EmptyObjectLiteral

\* the routines that build the value tuple of a row
CodecBuilders ==
    { "migrate_raw_batch", "migrate_normalized_batch", "parallel.migrate_batch",
      "continuous.migrate_raw_batch", "csv_to_bulk_insert" }

\* the fields of a row looked at: a text field, the JSON payload, a numeric
\* field and the timestamp
BuiltFields(builder) ==
    IF builder = "migrate_normalized_batch" THEN { "city", "lat", "inserted_at" }
    ELSE { "city", "payload", "inserted_at" }

\* migrate-data-mcp.py migrate_raw_batch: the value tuple of a row
migrate_raw_batch(row) ==
    [f \in BuiltFields("migrate_raw_batch") |->
        CASE f = "city" -> escape_sql_string(row.city)
          [] f = "payload" -> format_json_field(row.payload)
          [] f = "inserted_at" -> escape_sql_string(row.inserted_at)]

\* migrate-data-mcp.py migrate_normalized_batch (inserted_at stands for
\* created_at)
migrate_normalized_batch(row) ==
    [f \in BuiltFields("migrate_normalized_batch") |->
        CASE f = "city" -> escape_sql_string(row.city)
          [] f = "lat" -> IF row.lat.kind = "none" THEN NULL ELSE str(row.lat)
          [] f = "inserted_at" -> escape_sql_string(row.inserted_at)]

\* parallel-migrate.py SupabaseMigrator.migrate_batch
SupabaseMigrator_migrate_batch(row) ==
    [f \in BuiltFields("parallel.migrate_batch") |->
        CASE f = "city" -> SupabaseMigrator_escape_sql_string(row.city)
          [] f = "payload" -> format_json_field(row.payload)
          [] f = "inserted_at" ->
                SupabaseMigrator_escape_sql_string(Str(str(row.inserted_at)))]

\* continuous-migrate.py migrate_raw_batch
continuous_migrate_raw_batch(row) ==
    [f \in BuiltFields("continuous.migrate_raw_batch") |->
        CASE f = "city" -> escape_sql_string(row.city)
          [] f = "payload" -> format_json_field(row.payload)
          [] f = "inserted_at" -> escape_sql_string(Str(str(row.inserted_at)))]

\* csv-to-sql.py csv_to_bulk_insert: every field of the CSV row is a str
csv_to_bulk_insert(row) ==
    [f \in BuiltFields("csv_to_bulk_insert") |->
        CASE f = "city" -> << Quote >> \o replace_quotes(row.city.s) \o << Quote >>
          [] f = "payload" -> << Quote >> \o replace_quotes(row.payload.s)
                                \o << Quote >> \o JsonbCast
          [] f = "inserted_at" -> << Quote >> \o replace_quotes(row.inserted_at.s)
                                    \o << Quote >>]

BuildValues(builder, row) ==
    CASE builder = "migrate_raw_batch" -> migrate_raw_batch(row)
      [] builder = "migrate_normalized_batch" -> migrate_normalized_batch(row)
      [] builder = "parallel.migrate_batch" -> SupabaseMigrator_migrate_batch(row)
      [] builder = "continuous.migrate_raw_batch" -> continuous_migrate_raw_batch(row)
      [] builder = "csv_to_bulk_insert" -> csv_to_bulk_insert(row)

\* the rows the builders are checked on: all texts up to MaxLen in the text
\* field with a few payloads, and a few texts with all payloads up to
\* MaxJsonLen
TextValues == { Null } \cup { Str(s) : s \in StringsOver(Chars, MaxLen) }
PayloadValues == { Null } \cup { Str(s) : s \in StringsOver(JsonChars, MaxJsonLen) }

SqliteRows ==
    [ city : TextValues,
      payload : { Null, Str(<< "{", "}" >>), Str(<< "a" >>) },
      lat : { Null, Num(30), Num(-97) },
      inserted_at : { Null, Str(<< "2", "0", "2", "4" >>) } ]
    \cup
    [ city : { Null, Str(<< "a" >>), Str(<< Quote >>) },
      payload : PayloadValues,
      lat : { Null, Num(30), Num(-97) },
      inserted_at : { Null, Str(<< "2", "0", "2", "4" >>) } ]

\* csv.DictReader yields a str for every field of a row
CsvRows == { r \in SqliteRows : r.city.kind = "str" /\ r.payload.kind = "str"
                                /\ r.inserted_at.kind = "str" /\ r.lat = Null }

InitCodec ==
    /\ script = "codec"
    /\ table_count = 1
    /\ start_offset = 0
    /\ batch_size = 1
    /\ target_total = -1
    /\ InitLocals
    /\ \E b \in CodecBuilders :
         \E r \in (IF b = "csv_to_bulk_insert" THEN CsvRows ELSE SqliteRows) :
            cv = [ phase |-> "row", builder |-> b, row |-> r,
                   values |-> [f \in BuiltFields(b) |-> << >>] ]
    /\ tm = NoTurboMigrate
    /\ orch = NoOrchestrator
    /\ rs = NoResend
    /\ out = NoOutput
    /\ rn = NoResume
    /\ rsrc = NoFetch

\* the builder renders the row as the value tuple of its INSERT statement
BuildRow ==
    /\ script = "codec"
    /\ cv.phase = "row"
    /\ cv' = [cv EXCEPT !.phase = "built", !.values = BuildValues(cv.builder, cv.row)]
    /\ UNCHANGED << ctlvars, tm, orch, rs, out, rn, rsrc >>

SpecCodec == InitCodec /\ [][BuildRow]_vars

\* ------------------------------------------------ auto-mcp-bulk.py
\* The client runs migrate-data-mcp.py as a child process, reads what it
\* printed and prints the rows again as one INSERT statement.  A text is
\* the sequence of its characters, an output the sequence of its lines.
BulkDefaultBatch == 5000
BulkDefaultMaxBatches == 10

\* s.find(sub): the first index (from 0) at which sub occurs in s, or -1
find(s, sub) ==
    LET at == { i \in 0 .. (Len(s) - Len(sub)) : SubSeq(s, i + 1, i + Len(sub)) = sub }
    IN  IF at = {} THEN -1 ELSE CHOOSE i \in at : \A j \in at : i <= j

\* s.rfind(sub): the last index at which sub occurs in s, or -1
rfind(s, sub) ==
    LET at == { i \in 0 .. (Len(s) - Len(sub)) : SubSeq(s, i + 1, i + Len(sub)) = sub }
    IN  IF at = {} THEN -1 ELSE CHOOSE i \in at : \A j \in at : i >= j

\* s.count(sub): the occurrences of sub in s that do not overlap, from the left
RECURSIVE count(_, _)
count(s, sub) ==
    IF Len(s) < Len(sub) THEN 0
    ELSE IF SubSeq(s, 1, Len(sub)) = sub
      THEN 1 + count(SubSeq(s, Len(sub) + 1, Len(s)), sub)
    ELSE count(Tail(s), sub)

\* the first line of the statement migrate_raw_batch builds for a row
InsertRawHeader ==
    << "I", "N", "S", "E", "R", "T", " ", "I", "N", "T", "O", " ", "r", "a",
           "w", " ", "(", "i", "d", ",", " ", "c", "i", "t", "y", ",", " ",
           "d", "a", "t", "a", "s", "e", "t", ",", " ", "w", "a", "t", "e",
           "r", "m", "a", "r", "k", ",", " ", "p", "a", "y", "l", "o", "a",
           "d", ",", " ", "i", "n", "s", "e", "r", "t", "e", "d", "_", "a",
           "t", ")", " ", "V", "A", "L", "U", "E", "S", " ", "(" >>

\* migrate-data-mcp.py migrate_raw_batch: the lines of the statement of a
\* row (the header, one line per value, the closing line); id, dataset and
\* watermark are text fields rendered as city is and are left out
StatementLines(row) ==
    LET v == migrate_raw_batch(row) IN
    << InsertRawHeader,
       v.city \o << ",", " " >>,
       v.payload \o << ",", " " >>,
       v.inserted_at,
       << ")", ";" >> >>

\* migrate-data-mcp.py main: what the child prints for the page rows
RECURSIVE ChildStatements(_)
ChildStatements(rows) ==
    IF rows = << >> THEN << >>
    ELSE StatementLines(Head(rows)) \o ChildStatements(Tail(rows))

ChildStdout(rows, offset, limit) ==
    << << "-", "-", " ", "M", "i", "g", "r", "a", "t", "i", "n", "g", " ", "r",
          "a", "w", " ", "t", "a", "b", "l", "e", ":", " ", "o", "f", "f",
          "s", "e", "t", " " >> \o Digits(offset)
       \o << ",", " ", "b", "a", "t", "c", "h", " ", "s", "i", "z", "e", " " >> \o Digits(limit) >>
    \o (IF rows = << >>
          THEN << << "-", "-", " ", "N", "o", " ", "r", "e", "c", "o", "r", "d", "s", " ",
                 "f", "o", "u", "n", "d" >> >>
          ELSE << << "-", "-", " ", "F", "o", "u", "n", "d", " " >> \o Digits(Len(rows))
                  \o << " ", "r", "e", "c", "o", "r", "d", "s" >>,
                  << "B", "E", "G", "I", "N", ";" >> >>
               \o ChildStatements(rows)
               \o << << "C", "O", "M", "M", "I", "T", ";" >> >>)

\* the values run_batch_and_execute takes out of the lines of the child's
\* output: for a line that starts with INSERT INTO raw and holds VALUES, the
\* text between "VALUES (" and the last ");" if there is one
RECURSIVE values_list(_)
values_list(lines) ==
    IF lines = << >> THEN << >>
    ELSE LET line == Head(lines)
             start == find(line, << "V", "A", "L", "U", "E", "S", " ", "(" >>) + 8
             end == rfind(line, << ")", ";" >>)
         IN  (IF /\ Len(line) >= 15
                 /\ SubSeq(line, 1, 15) = << "I", "N", "S", "E", "R", "T", " ", "I", "N", "T", "O", " ", "r", "a",
                           "w" >>
                 /\ find(line, << "V", "A", "L", "U", "E", "S" >>) # -1
                 /\ start > 7
                 /\ end > start
                THEN << << "(" >> \o SubSeq(line, start + 1, end) \o << ")" >> >>
                ELSE << >>)
             \o values_list(Tail(lines))

\* sql_output.count('INSERT INTO raw'): the text searched for has no line
\* break, so the count over the output is the sum of the counts of its lines
RECURSIVE record_count(_)
record_count(lines) ==
    IF lines = << >> THEN 0
    ELSE count(Head(lines), << "I", "N", "S", "E", "R", "T", " ", "I", "N", "T", "O", " ", "r", "a",
                           "w" >>)
         + record_count(Tail(lines))

InitBulk ==
    /\ script = "bulk"
    /\ \E db \in UNION { [1 .. k -> [ city : { Null, Str(<< "a" >>), Str(<< Quote >>) },
                                       payload : { Null, Str(<< "{", "}" >>) },
                                       lat : { Null },
                                       inserted_at : { Str(<< "2", "0", "2", "4" >>) } ]]
                           : k \in 0 .. 2 } :
       \E m \in { 1, BulkDefaultMaxBatches } :
          rn = [ max_batches |-> m, db |-> db, emitted |-> << >> ]
    /\ table_count = Len(rn.db)
    /\ start_offset \in { 0, 1 }
    /\ batch_size \in { 1, BulkDefaultBatch }
    /\ target_total = -1
    /\ InitLocals
    /\ tm = NoTurboMigrate
    /\ orch = NoOrchestrator
    /\ rs = NoResend
    /\ out = << >>
    /\ cv = NoCodec
    /\ rsrc = NoFetch

\* one pass of main's while loop with run_batch_and_execute: the child is
\* run (returncode 1: it did not find the database), its output is counted
\* and taken apart, the envelope is printed and the offset moves on by the
\* count
BulkIteration(returncode) ==
    /\ script = "bulk"
    /\ pc = "top"
    /\ LET first == Min(current_offset, Len(rn.db)) + 1
           rows == SubSeq(rn.db, first,
                          first + PageLen(Len(rn.db), current_offset, batch_size) - 1)
           sql_output == ChildStdout(rows, current_offset, batch_size)
           records == record_count(sql_output)
           values == values_list(sql_output)
       IN  IF batch_count >= rn.max_batches
             THEN /\ returncode = 0
                  /\ pc' = "stopped"
                  /\ stop_reason' = "max_batches"
                  /\ UNCHANGED << current_offset, batch_count, last, out, rn >>
           ELSE IF returncode # 0 \/ records = 0
             THEN /\ pc' = "stopped"
                  /\ stop_reason' = IF returncode # 0 THEN "generate_failed" ELSE "empty"
                  /\ last' = [start |-> current_offset, len |-> 0, result |-> "empty"]
                  /\ UNCHANGED << current_offset, batch_count, out, rn >>
           ELSE /\ out' = << << "B", "E", "G", "I", "N", ";" >> >>
                          \o (IF values = << >> THEN << >>
                                ELSE << InsertRawHeader >> \o values)
                          \o << << "C", "O", "M", "M", "I", "T", ";" >> >>
                /\ rn' = [rn EXCEPT !.emitted = Append(@,
                              [start |-> current_offset, record_count |-> records,
                               tuples |-> Len(values), rows |-> Len(rows)])]
                /\ current_offset' = current_offset + records
                /\ batch_count' = batch_count + 1
                /\ last' = [start |-> current_offset, len |-> records,
                            result |-> "printed"]
                /\ UNCHANGED << pc, stop_reason >>
    /\ UNCHANGED << script, table_count, start_offset, batch_size, target_total,
                    total_processed, consecutive_failures, inflight, sink_rows,
                    fail_run, exec_failures, size_at_offset, success_count, slept,
                    channel_calls, tm, orch, rs, cv, rsrc >>

SpecBulk == InitBulk /\ [][\E returncode \in { 0, 1 } : BulkIteration(returncode)]_vars

\* ------------------------------------------------ csv-to-sql.py
\* csv_to_bulk_insert reads the rows of the CSV file in order and prints an
\* envelope whenever batch_size tuples have been collected, and one more
\* for the tuples left at the end.  Row k of the file stands for its tuple.
CsvDefaultBatch == 10000

InitCsv ==
    /\ script = "csv"
    /\ table_count \in 0 .. 5
    /\ start_offset = 0
    /\ batch_size \in { 1, 2, 3, CsvDefaultBatch }
    /\ \E name \in Tables :
         rn = [ table_name |-> name, next |-> 1, batch |-> << >>, batch_num |-> 0,
                envelopes |-> << >>, phase |-> "reading" ]
    /\ target_total = -1
    /\ InitLocals
    /\ tm = NoTurboMigrate
    /\ orch = NoOrchestrator
    /\ rs = NoResend
    /\ out = NoOutput
    /\ cv = NoCodec
    /\ rsrc = NoFetch

\* one pass of "for row in reader": values is assigned for table raw only;
\* for another table the name is unbound at the first row and
\* batch.append(values) raises UnboundLocalError, which nothing catches
CsvRow ==
    /\ script = "csv"
    /\ rn.phase = "reading"
    /\ rn.next <= table_count
    /\ IF rn.table_name # "raw"
         THEN rn' = [rn EXCEPT !.phase = "raised"]
         ELSE LET batch == Append(rn.batch, rn.next) IN
              IF Len(batch) >= batch_size
                THEN rn' = [rn EXCEPT !.next = @ + 1,
                                      !.batch_num = @ + 1,
                                      !.envelopes = Append(@, batch),
                                      !.batch = << >>]
                ELSE rn' = [rn EXCEPT !.next = @ + 1, !.batch = batch]
    /\ UNCHANGED << ctlvars, tm, orch, rs, out, cv, rsrc >>

\* after the loop: "if batch:" prints the rows left over
CsvRemainder ==
    /\ script = "csv"
    /\ rn.phase = "reading"
    /\ rn.next > table_count
    /\ IF rn.batch # << >>
         THEN rn' = [rn EXCEPT !.batch_num = @ + 1,
                               !.envelopes = Append(@, rn.batch),
                               !.batch = << >>,
                               !.phase = "done"]
         ELSE rn' = [rn EXCEPT !.phase = "done"]
    /\ UNCHANGED << ctlvars, tm, orch, rs, out, cv, rsrc >>

SpecCsv == InitCsv /\ [][CsvRow \/ CsvRemainder]_vars

\* ------------------------------------------------ auto-mcp-execute.py
\* run_migration_with_mcp runs migrate-data-mcp.py, cuts its output into
\* BEGIN;...COMMIT; blocks and executes them one after the other.  The
\* output is the sequence of its tokens: the two markers, wherever they
\* occur (in a value of a row too), and any other text.
MaxOutputTokens == 6

\* re.findall(r'BEGIN;.*?COMMIT;', output, re.DOTALL) from position from:
\* the matches from left to right, each from the first BEGIN; not yet
\* passed to the first COMMIT; after it
RECURSIVE findall(_, _)
findall(output, from) ==
    LET begins == { i \in from .. Len(output) : output[i] = "BEGIN;" } IN
    IF begins = {} THEN << >>
    ELSE LET b == CHOOSE i \in begins : \A j \in begins : i <= j
             commits == { i \in (b + 1) .. Len(output) : output[i] = "COMMIT;" }
         IN  IF commits = {} THEN << >>
             ELSE LET c == CHOOSE i \in commits : \A j \in commits : i <= j
                  IN  << [first |-> b, last |-> c] >> \o findall(output, c + 1)

InitMcpExecute ==
    /\ script = "mcpexec"
    /\ \E stdout \in UNION { [1 .. k -> { "BEGIN;", "COMMIT;", "text" }]
                               : k \in 0 .. MaxOutputTokens } :
         rn = [ stdout |-> stdout, sql_blocks |-> << >>, i |-> 0,
                executed |-> << >>, result |-> "running" ]
    /\ table_count = 0
    /\ start_offset = 0
    /\ batch_size = 0
    /\ target_total = -1
    /\ InitLocals
    /\ tm = NoTurboMigrate
    /\ orch = NoOrchestrator
    /\ rs = NoResend
    /\ out = NoOutput
    /\ cv = NoCodec
    /\ rsrc = NoFetch

\* the child is run and its output cut into blocks; a non-zero returncode
\* and an output without a block end the function with False
RunMigrationScript(returncode) ==
    /\ script = "mcpexec"
    /\ rn.result = "running"
    /\ rn.i = 0
    /\ LET blocks == findall(rn.stdout, 1) IN
       IF returncode # 0 \/ blocks = << >>
         THEN rn' = [rn EXCEPT !.result = "False"]
         ELSE rn' = [rn EXCEPT !.sql_blocks = blocks, !.i = 1]
    /\ UNCHANGED << ctlvars, tm, orch, rs, out, cv, rsrc >>

\* variant: a block that failed is reported at the end, the loop goes on
ExecuteBlock_GoesOn(success) ==
    /\ script = "mcpexec"
    /\ rn.result = "running"
    /\ rn.i >= 1
    /\ LET executed == Append(rn.executed, [block |-> rn.i, success |-> success]) IN
       IF rn.i = Len(rn.sql_blocks)
         THEN rn' = [rn EXCEPT !.executed = executed,
                               !.result = IF \A k \in 1 .. Len(executed) :
                                                executed[k].success
                                            THEN "True" ELSE "False"]
         ELSE rn' = [rn EXCEPT !.executed = executed, !.i = @ + 1]
    /\ UNCHANGED << ctlvars, tm, orch, rs, out, cv, rsrc >>

\* one pass of "for i, sql_block in enumerate(sql_blocks)":
\* execute_sql_via_mcp returns True (the temporary script ended with
\* returncode 0) or False (any other returncode, or an exception); False
\* ends the function, and after the last block it returns True
ExecuteBlock(success) ==
    /\ script = "mcpexec"
    /\ rn.result = "running"
    /\ rn.i >= 1
    /\ LET executed == Append(rn.executed, [block |-> rn.i, success |-> success]) IN
       IF ~success
         THEN rn' = [rn EXCEPT !.executed = executed, !.result = "False"]
       ELSE IF rn.i = Len(rn.sql_blocks)
         THEN rn' = [rn EXCEPT !.executed = executed, !.result = "True"]
       ELSE rn' = [rn EXCEPT !.executed = executed, !.i = @ + 1]
    /\ UNCHANGED << ctlvars, tm, orch, rs, out, cv, rsrc >>

SpecMcpExecute ==
    /\ InitMcpExecute
    /\ [][\/ \E returncode \in { 0, 1 } : RunMigrationScript(returncode)
          \/ \E success \in BOOLEAN : ExecuteBlock(success)]_vars

\* ------------------------------------------------ temporary files
\* execute_mcp_sql (execute-large-scale-pipeline.py) and
\* execute_via_mcp_auto (auto-mcp-turbo.py) write the statement to a file
\* of their own before they run the child process.  files is the set of
\* the files that exist; a program makes up to MaxCalls calls.
MaxCalls == 3

InitTempFile ==
    /\ script \in { "pipeline", "turbo" }
    /\ rn = [ files |-> {}, sql_file |-> None, second |-> 0, calls |-> 0,
              results |-> << >>, phase |-> "idle" ]
    /\ table_count = 0
    /\ start_offset = 0
    /\ batch_size = 0
    /\ target_total = -1
    /\ InitLocals
    /\ tm = NoTurboMigrate
    /\ orch = NoOrchestrator
    /\ rs = NoResend
    /\ out = NoOutput
    /\ cv = NoCodec
    /\ rsrc = NoFetch

\* the call begins: execute_mcp_sql names the file after the second of the
\* clock (the same second as at the call before, or a later one) and
\* writes it; execute_via_mcp_auto has NamedTemporaryFile(delete=False)
\* make a file of a new name
WriteTempFile(elapsed) ==
    /\ script \in { "pipeline", "turbo" }
    /\ rn.phase = "idle"
    /\ rn.calls < MaxCalls
    /\ LET name == IF script = "pipeline" THEN rn.second + elapsed
                                          ELSE rn.calls + 1 IN
       rn' = [rn EXCEPT !.files = @ \cup { name },
                        !.sql_file = name,
                        !.second = @ + elapsed,
                        !.calls = @ + 1,
                        !.phase = "written"]
    /\ UNCHANGED << ctlvars, tm, orch, rs, out, cv, rsrc >>

\* subprocess.run and what follows it.  execute_mcp_sql removes the file
\* in its finally clause, on every way out of the try statement (an
\* exception other than TimeoutExpired then leaves the function).
\* execute_via_mcp_auto calls os.unlink after subprocess.run has returned;
\* TimeoutExpired goes to its handler, which returns False.
ExecuteChild(outcome) ==
    /\ script \in { "pipeline", "turbo" }
    /\ rn.phase = "written"
    /\ outcome \in (IF script = "pipeline" THEN PipelineOutcomes
                                            ELSE TurboExecutorOutcomes)
    /\ LET removed == script = "pipeline" \/ outcome # "timeout"
           returned == IF script = "pipeline" THEN execute_mcp_sql(outcome)
                                              ELSE execute_via_mcp_auto(outcome)
       IN  rn' = [rn EXCEPT !.files = IF removed THEN @ \ { rn.sql_file } ELSE @,
                            !.sql_file = None,
                            !.results = Append(@, [outcome |-> outcome,
                                                   returned |-> returned]),
                            !.phase = IF script = "pipeline" /\ outcome = "exception"
                                        THEN "raised" ELSE "idle"]
    /\ UNCHANGED << ctlvars, tm, orch, rs, out, cv, rsrc >>

SpecTempFile ==
    /\ InitTempFile
    /\ [][\/ \E elapsed \in { 0, 1 } : WriteTempFile(elapsed)
          \/ \E outcome \in PipelineOutcomes \cup TurboExecutorOutcomes :
                ExecuteChild(outcome)]_vars

\* ------------------------------------------------ operator interrupt
\* Ctrl-C while continuous_auto_migrate / continuous_turbo_migrate runs:
\* KeyboardInterrupt is raised wherever the main thread is (inside
\* subprocess.run too: neither client catches it, "except Exception" does not
\* match it) and reaches the handler in __main__, which prints and ends the
\* program. Whether the child had already applied the statement is not
\* known to the program.
Interrupt(applied) ==
    /\ script \in { "auto", "turbo" }
    /\ pc \in { "top", "executing" }
    /\ pc' = "stopped"
    /\ stop_reason' = "interrupt"
    /\ IF pc = "executing"
         THEN sink_rows' = IF applied THEN sink_rows + inflight.len ELSE sink_rows
         ELSE applied = FALSE /\ sink_rows' = sink_rows
    /\ UNCHANGED << script, table_count, start_offset, target_total, size_at_offset,
                    current_offset, batch_size, batch_count, total_processed,
                    consecutive_failures, inflight, last, fail_run, exec_failures,
                    success_count, slept >>
    /\ channel_calls' = IF pc = "executing" THEN channel_calls + 1 ELSE channel_calls
    /\ UNCHANGED << tm, orch, rs, pagevars >>

\* ---------------------------------------------------------- specification
InitAuto ==
    /\ script = "auto"
    /\ table_count \in AutoTableSizes
    /\ start_offset = AutoStartOffset
    /\ batch_size = AutoInitialBatch
    /\ target_total = AutoTargetTotal

InitTurbo ==
    /\ script = "turbo"
    /\ table_count \in TurboTableSizes
    /\ start_offset = TurboStartOffset
    /\ batch_size = TurboBatch
    /\ target_total = TurboTargetTotal

InitContinuous ==
    /\ script = "continuous"
    /\ table_count \in ContinuousTableSizes
    /\ start_offset = ContinuousStartOffset
    /\ batch_size = ContinuousBatch
    /\ target_total = ContinuousTargetTotal

InitUltra ==
    /\ script = "ultra"
    /\ table_count \in UltraTableSizes
    /\ start_offset \in UltraStartOffsets
    /\ batch_size \in UltraBatchSizes
    /\ target_total = -1

InitOptimized ==
    /\ script = "optimized"
    /\ table_count \in OptimizedTableSizes
    /\ start_offset \in OptimizedStartOffsets
    /\ batch_size \in OptimizedBatchSizes
    /\ target_total \in get_table_count(table_count)

InitMCPDirect ==
    /\ script = "mcpdirect"
    /\ table_count \in MCPDirectTableSizes
    /\ start_offset \in MCPDirectStartOffsets
    /\ batch_size \in MCPDirectBatchSizes
    /\ target_total \in get_table_count(table_count)

InitPipeline ==
    /\ script = "pipeline"
    /\ table_count = 0
    /\ start_offset = 0
    /\ batch_size = PipelineBatch
    /\ target_total = -1

Init ==
    /\ \/ InitAuto
       \/ InitTurbo
       \/ InitContinuous
       \/ InitUltra
       \/ InitOptimized
       \/ InitMCPDirect
       \/ InitPipeline
    /\ InitLocals
    /\ tm = NoTurboMigrate
    /\ orch = NoOrchestrator
    /\ rs = NoResend
    /\ InitPages

Next ==
    \/ AutoFetch
    \/ \E o \in AutoExecutorOutcomes : AutoSettle(o)
    \/ TurboFetch
    \/ \E o \in TurboExecutorOutcomes : TurboSettle(o)
    \/ \E f \in FetchOutcomes : ContinuousIteration(f)
    \/ UltraIteration
    \/ \E f \in FetchOutcomes : OptimizedIteration(f)
    \/ \E o \in SubprocessOutcomes : MCPDirectIteration(o)
    \/ \E o \in PipelineOutcomes : PipelineStep(o)

Spec == Init /\ [][Next]_vars

\* runs of the two retrying controllers on tables of up to a few pages,
\* with the operator's interrupt
InterruptTableSizes == { 160, 12156, 40156 }

InitInterrupt ==
    /\ InitAuto \/ InitTurbo
    /\ table_count \in InterruptTableSizes
    /\ InitLocals
    /\ tm = NoTurboMigrate
    /\ orch = NoOrchestrator
    /\ rs = NoResend
    /\ InitPages

NextInterrupt ==
    \/ AutoFetch
    \/ \E o \in AutoExecutorOutcomes : AutoSettle(o)
    \/ TurboFetch
    \/ \E o \in TurboExecutorOutcomes : TurboSettle(o)
    \/ \E applied \in BOOLEAN : Interrupt(applied)

SpecInterrupt == InitInterrupt /\ [][NextInterrupt]_vars

\* ------------------------------------------------ mcp-auto-execute.py run to its end
\* continuous_auto_migrate alone; the loop is sequential code and every call
\* of the executor returns (subprocess.run has timeout=120), so the loop
\* keeps taking steps until it is left
InitAutoRun ==
    /\ InitAuto
    /\ InitLocals
    /\ tm = NoTurboMigrate
    /\ orch = NoOrchestrator
    /\ rs = NoResend
    /\ InitPages

NextAuto ==
    \/ AutoFetch
    \/ \E o \in AutoExecutorOutcomes : AutoSettle(o)

SpecAutoFair == InitAutoRun /\ [][NextAuto]_vars /\ WF_vars(NextAuto)

\* ------------------------------------------------ tables that stop on failure
\* mcp-auto-execute.py and hybrid-migrate.py side by side: the two
\* controllers that stop a table when the executor fails and print the
\* offset reached
InitFailedTable ==
    \/ /\ InitAuto
       /\ InitLocals
       /\ tm = NoTurboMigrate
       /\ orch = NoOrchestrator
       /\ rs = NoResend
       /\ InitPages
    \/ /\ InitOrchestrator
       /\ script = "hybrid"

NextFailedTable ==
    \/ AutoFetch
    \/ \E o \in AutoExecutorOutcomes : AutoSettle(o)
    \/ \E t \in Tables : \E f \in FetchOutcomes, b \in ChannelBehaviours :
          HybridFetch(t, f, b)
    \/ \E t \in Tables : \E o \in SubprocessOutcomes : HybridSettle(t, o)
    \/ Join

SpecFailedTable == InitFailedTable /\ [][NextFailedTable]_vars

\* ------------------------------------------------ fixed-size loops
\* ultra-fast-migrate.py, execute-migrate.py and direct-mcp-migrate.py side
\* by side: loops that keep the batch size they were started with
InitFixedSize ==
    \/ /\ InitUltra
       /\ InitLocals
       /\ tm = NoTurboMigrate
       /\ orch = NoOrchestrator
       /\ rs = NoResend
       /\ InitPages
    \/ /\ InitPrinters
       /\ script \in { "execute", "directmcp" }

NextFixedSize ==
    \/ UltraIteration
    \/ ExecuteIteration
    \/ DirectMCPIteration

SpecFixedSize == InitFixedSize /\ [][NextFixedSize]_vars

TypeOK ==
    /\ pc \in { "top", "executing", "stopped" }
    /\ current_offset \in Nat
    /\ batch_size \in Nat
    /\ success_count \in Nat
    /\ slept \in Nat
    /\ channel_calls \in Nat

\* ------------------------------------------------------------------ claims
Retrying == { "auto", "turbo" }

\* C1: in continuous_auto_migrate and continuous_turbo_migrate, when the
\* executor reports failure for the batch fetched at offset k, the offset and
\* the migrated-row total stay as they were, and the next batch handed to the
\* executor starts at k again.
C1_FailureStep ==
    (script \in Retrying /\ pc = "executing" /\ last'.result = "failure")
        => /\ current_offset' = current_offset
           /\ total_processed' = total_processed
           /\ last'.start = inflight.start
           /\ current_offset' = inflight.start

C1_RetrySameOffset ==
    (script \in Retrying /\ pc = "executing" /\ last.result = "failure")
        => inflight.start = last.start

C1_FailureNeverAdvances == [][C1_FailureStep]_vars /\ []C1_RetrySameOffset

C1_Witness ==
    /\ script \in Retrying
    /\ pc = "executing"
    /\ last.result = "failure"
    /\ last.len > 0
    /\ inflight.start = last.start
    /\ total_processed > 0

\* C2: a controller counts rows as migrated (offset past the start offset)
\* only for batches the executor ran against the sink with success: the rows
\* counted never exceed the rows the sink applied.  Stated for the
\* controllers of mcp-direct-migrate, optimized-migrate and
\* ultra-fast-migrate.
C2_MigratedOnlyAfterExecutorSuccess ==
    script \in { "mcpdirect", "optimized", "ultra" }
        => current_offset - start_offset <= sink_rows

\* C3: in continuous_auto_migrate batch_size stays between the floor 1000
\* and the ceiling 10000 in every reachable state.
C3_BatchSizeWithinBounds ==
    script = "auto" => (AutoFloor <= batch_size /\ batch_size <= AutoCeiling)

C3_Witness ==
    /\ script = "auto"
    /\ batch_size = AutoFloor
    /\ size_at_offset \div 2 < AutoFloor
    /\ consecutive_failures > 0
    /\ pc = "top"

\* C4: in continuous_auto_migrate and continuous_turbo_migrate the
\* migrated-row total equals the current offset minus the starting offset in
\* every reachable state.
C4_TotalEqualsOffsetAdvance ==
    script \in Retrying => total_processed = current_offset - start_offset

C4_Witness ==
    /\ script \in Retrying
    /\ total_processed > 0
    /\ exec_failures > 0
    /\ last.result = "success"
    /\ last.len < batch_size
    /\ current_offset = table_count

\* C5: in continuous_auto_migrate and ultra-fast-migrate's main, a
\* successful batch is the page starting at the current offset, it advances
\* the offset by exactly its length, a success that follows a success starts
\* where the previous page ended (so the ranges are consecutive and none is
\* sent twice), and the offset never decreases.
C5_SuccessStep ==
    (script \in { "auto", "ultra" } /\ last' # last /\ last'.result = "success")
        => /\ last'.start = current_offset
           /\ last'.len > 0
           /\ current_offset' = current_offset + last'.len
           /\ (last.result = "success" => last'.start = last.start + last.len)

C5_Monotone == script \in { "auto", "ultra" } => current_offset' >= current_offset

C5_ConsecutiveRanges == [][C5_SuccessStep /\ C5_Monotone]_vars

C5_Witness ==
    /\ script \in { "auto", "ultra" }
    /\ last.result = "success"
    /\ last.len < batch_size
    /\ last.start > start_offset
    /\ current_offset = start_offset + total_processed
    /\ total_processed > 2 * last.len
\* C6: when the page fetched at the current offset is empty, the controller
\* (continuous_auto_migrate, continuous_turbo_migrate) stops as done in that
\* very iteration, leaving the consecutive-failure count and batch_size as
\* they were, and does not retry the offset.
C6_EmptyFetchStep ==
    (script \in Retrying /\ pc = "top" /\ batch_count' = batch_count + 1
        /\ last'.result = "empty")
        => /\ pc' = "stopped"
           /\ consecutive_failures' = consecutive_failures
           /\ batch_size' = batch_size

C6_EmptyPageTerminates == [][C6_EmptyFetchStep]_vars

\* C7: a controller (continuous_auto_migrate, continuous_turbo_migrate,
\* continuous-migrate's main) that leaves its loop as complete - the offset
\* reached the target or a page came back empty - has no unread rows left,
\* whatever the table's row count.
C7_CompleteOnlyWhenExhausted ==
    (script \in { "auto", "turbo", "continuous" } /\ pc = "stopped"
        /\ stop_reason \in { "target", "empty" })
        => current_offset >= table_count

\* C8 (as claimed): continuous_auto_migrate stops as failed exactly when the
\* consecutive-failure count exceeds 3; with a count of at most 3 it has not
\* stopped as failed.
C8_StopsWhenCountExceedsThree ==
    script = "auto" => (stop_reason = "failures" <=> consecutive_failures > 3)

\* C8 (amended): continuous_auto_migrate stops as failed exactly when
\* consecutive_failures reaches 3: a failed iteration that brings the count
\* to at most 2 goes back to the top of the loop at the same offset, the
\* count never exceeds 3, and once stopped no further batch is attempted.
C8_StopState ==
    script = "auto"
        => /\ (stop_reason = "failures" <=> consecutive_failures >= AutoFailureLimit)
           /\ consecutive_failures <= AutoFailureLimit
           /\ (stop_reason = "failures" => pc = "stopped")

C8_RetryStep ==
    (script = "auto" /\ consecutive_failures' = consecutive_failures + 1
        /\ consecutive_failures' < AutoFailureLimit)
        => (pc' = "top" /\ current_offset' = current_offset)

C8_NoBatchAfterStop ==
    (script = "auto" /\ pc = "stopped")
        => (batch_count' = batch_count /\ pc' = "stopped")

C8_StopsAtThreeFailures ==
    []C8_StopState /\ [][C8_RetryStep /\ C8_NoBatchAfterStop]_vars

C8_Witness ==
    /\ script = "auto"
    /\ stop_reason = "failures"
    /\ consecutive_failures = AutoFailureLimit
    /\ fail_run = AutoFailureLimit
    /\ current_offset < table_count

\* C9: in continuous_turbo_migrate a run of consecutive executor failures at
\* one offset is bounded: after three failures in a row the loop has stopped
\* rather than going back to retry.
C9_TurboFailureRunBounded ==
    (script = "turbo" /\ fail_run >= AutoFailureLimit) => pc = "stopped"

\* batch_size after k halvings clamped at the floor
RECURSIVE Halved(_, _)
Halved(b, k) == IF k = 0 THEN b ELSE Max(Halved(b, k - 1) \div 2, AutoFloor)

\* C10: in continuous_auto_migrate, after f failures in a row at an offset
\* (f below the stop limit) batch_size is the size the run arrived with
\* halved f times (clamped at the floor) and the offset is still that of the
\* failed batch; a success then resets consecutive_failures to 0 and advances
\* the offset by exactly the length of the page that succeeded.
C10_DuringFailures ==
    (script = "auto" /\ pc # "stopped")
        => /\ batch_size = Halved(size_at_offset, consecutive_failures)
           /\ (consecutive_failures > 0 => last.start = current_offset)
           /\ (pc = "executing" => inflight.start = current_offset)

C10_RecoveryStep ==
    (script = "auto" /\ pc = "executing" /\ last'.result = "success")
        => /\ consecutive_failures' = 0
           /\ current_offset' = current_offset + inflight.len
           /\ inflight.len = PageLen(table_count, current_offset, batch_size)
           /\ last'.len = inflight.len

C10_FailureThenRecovery == []C10_DuringFailures /\ [][C10_RecoveryStep]_vars

C10_Witness ==
    /\ script = "auto"
    /\ batch_count = 3
    /\ exec_failures = 2
    /\ last.result = "success"
    /\ consecutive_failures = 0
    /\ last.len = Halved(AutoInitialBatch, 2)
    /\ current_offset = start_offset + last.len

\* C11: in continuous_auto_migrate, batch_size is increased (by 1000, capped
\* at 10000) on a successful batch exactly when the number of successful
\* batches so far is a multiple of 5; failed attempts do not count and
\* batch_size is not increased at any other step.
C11_GrowStep ==
    script = "auto" =>
      /\ batch_size' > batch_size <=>
           /\ success_count' = success_count + 1
           /\ success_count' % AutoGrowEvery = 0
           /\ batch_size < AutoCeiling
      /\ batch_size' > batch_size =>
           batch_size' = Min(batch_size + AutoGrowStep, AutoCeiling)

C11_GrowsEveryFifthSuccess == [][C11_GrowStep]_vars

\* C12: in the retrying controllers the delay slept before a failed batch is
\* retried grows with the number of consecutive failures of that batch
\* (exponentially, up to a fixed maximum): the pause after a second or later
\* failure in a row is longer than the pause before it.
C12_RetryStep ==
    ( /\ script \in Retrying
      /\ pc = "executing"
      /\ pc' = "top"
      /\ last'.result = "failure"
      /\ fail_run >= 1 )
    => slept' > slept

C12_BackoffGrows == [][C12_RetryStep]_vars

\* C13: for one table at most one batch is in flight at any time and batches
\* are applied in offset order, the multi-worker turbo migration of raw
\* included: no two workers hold a batch at once, and a worker holds the
\* batch of a later offset only after the outcome of the batch at the
\* preceding offset has been recorded by main.
C13_OneBatchInOffsetOrder ==
    script = "turbomigrate" =>
      /\ Cardinality({ w \in DOMAIN tm.worker : tm.worker[w].pc = "execute" }) <= 1
      /\ \A w \in DOMAIN tm.worker :
           (tm.worker[w].pc = "execute" /\ tm.worker[w].offset > start_offset)
             => (tm.worker[w].offset - batch_size) \in tm.recorded

\* C14: every batch built has at most the configured batch size rows, also
\* the batches built by turbo-migrate workers, for any batch_size argument.
C14_BatchWithinConfiguredSize ==
    script = "turbomigrate" =>
      \A w \in DOMAIN tm.worker :
        tm.worker[w].pc = "execute" => tm.worker[w].count <= batch_size

\* C17: in turbo-migrate, once main has been interrupted no worker starts a
\* new batch: each stops after at most the batch it has in flight.
C17_WorkerStep ==
    (script = "turbomigrate" /\ tm.interrupted) =>
      \A w \in DOMAIN tm.worker :
        ~(tm.worker[w].pc = "get" /\ tm'.worker[w].pc = "execute")

C17_NoNewBatchAfterInterrupt == [][C17_WorkerStep]_vars

\* C15: in hybrid-migrate and parallel-migrate a failed or stopped controller
\* of one table neither stops nor alters the offset sequence of the other
\* table's controller, and main returns only after both controllers have
\* terminated. A step changes the state of at most one controller; the
\* batches of a controller are the consecutive pages of its own table from
\* its own start offset; a controller at the top of its loop can always take
\* its next step, whatever the other one did.
RECURSIVE C15_Consecutive(_, _, _)
C15_Consecutive(c, i, offset) ==
    IF i > Len(c.batches) THEN TRUE
    ELSE /\ c.batches[i].start = offset
         /\ c.batches[i].len = PageLen(c.rows, offset, c.batch_size)
         /\ C15_Consecutive(c, i + 1, offset + c.batches[i].len)

C15_State ==
    script \in { "hybrid", "parallel" } =>
      /\ \A t \in Tables :
           /\ C15_Consecutive(orch.ctl[t], 1, orch.ctl[t].start_offset)
           /\ orch.ctl[t].pc = "top" => ENABLED ThreadStep(t)
      /\ orch.main = "returned" => \A t \in Tables : orch.ctl[t].pc = "done"

C15_Step ==
    script \in { "hybrid", "parallel" } =>
      \A t \in Tables :
        orch'.ctl[t] # orch.ctl[t] =>
          \A u \in Tables \ { t } : orch'.ctl[u] = orch.ctl[u]

C15_ControllersIndependent == []C15_State /\ [][C15_Step]_vars

\* one controller failed on its first batch, the other migrated its whole
\* table in three batches, main has returned
C15_Witness ==
    /\ script = "hybrid"
    /\ orch.main = "returned"
    /\ orch.ctl["raw"].stop = "failed"
    /\ Len(orch.ctl["raw"].batches) = 1
    /\ orch.ctl["normalized"].stop = "complete"
    /\ Len(orch.ctl["normalized"].batches) = 3

\* C16: when a run is cancelled while a batch has already been sent to the
\* executor, the controller lets the batch settle and records its outcome
\* before stopping: a retrying controller never stops with a batch sent and
\* its outcome unrecorded.
C16_NoBatchAbandoned ==
    (script \in Retrying /\ pc = "stopped") => inflight = NoPage

\* C18: an executor call that times out returns a failure result to the
\* controller (no exception, no success), the client invokes the channel
\* once for the call, and the controller takes its failure path at the same
\* offset: the batch is recorded as failed, nothing is counted as processed
\* and the offset stays where it was.
C18_AutoTimeout ==
    AutoSettle("timeout") =>
      /\ last' = [start |-> inflight.start, len |-> inflight.len, result |-> "failure"]
      /\ consecutive_failures' = consecutive_failures + 1
      /\ current_offset' = current_offset
      /\ total_processed' = total_processed
      /\ pc' \in { "top", "stopped" }
      /\ channel_calls' = channel_calls + 1

C18_TurboTimeout ==
    TurboSettle("timeout") =>
      /\ last' = [start |-> inflight.start, len |-> inflight.len, result |-> "failure"]
      /\ current_offset' = current_offset
      /\ total_processed' = total_processed
      /\ pc' = "top"
      /\ channel_calls' = channel_calls + 1

C18_PipelineTimeout ==
    PipelineStep("timeout") =>
      /\ last'.result = "failure"
      /\ stop_reason' # "exception"
      /\ total_processed' = total_processed
      /\ channel_calls' = channel_calls + 1

C18_TimeoutIsFailure ==
    [][C18_AutoTimeout /\ C18_TurboTimeout /\ C18_PipelineTimeout]_vars

\* a retrying controller whose second executor call failed: one call
\* counted per batch sent, the offset still at the failed batch
C18_Witness ==
    /\ script \in Retrying
    /\ channel_calls = 2
    /\ success_count = 1
    /\ last.result = "failure"
    /\ last.len > 0
    /\ current_offset = last.start
    /\ pc = "top"

\* C19: every execute call made by a controller has a bounded wait: when the
\* external channel never responds the call still returns and the
\* controller goes on (to its failure path) instead of blocking forever,
\* HybridMigrator.execute_sql_via_mcp included: a controller that is waiting
\* for the executor eventually is not waiting any more.
C19_BoundedWait ==
    /\ (script = "hybrid" /\ orch.ctl["raw"].pc = "executing")
          ~> (orch.ctl["raw"].pc # "executing")
    /\ (script = "hybrid" /\ orch.ctl["normalized"].pc = "executing")
          ~> (orch.ctl["normalized"].pc # "executing")

\* C20: executing an insert envelope whose rows were already applied (a batch
\* sent again after a restart or after an ambiguous failure) succeeds and
\* leaves the sink's contents unchanged: applying a batch twice equals
\* applying it once.
C20_ResendIsIdempotent ==
    ( /\ script = "resend"
      /\ rs.phase = "sent"
      /\ \A k \in rs.envelope.keys : rs.before[k] > 0 )
    => (rs.result = "ok" /\ rs.sink = rs.before)

\* the statements of the envelope printed last, without its first and last one
C21_Inner == SubSeq(out, 2, Len(out) - 1)

\* C21: in process_continuous_batches (final-migrate), the envelope printed
\* for a page starts with one BEGIN and ends with one COMMIT, and everything
\* in between is INSERT statements of 1 to 1000 rows each; the first one
\* starts at the first row of the page, each next one starts at the row after
\* the last row of the one before, and the last one ends at the last row of
\* the page, so every row of the page appears exactly once and in page order.
C21_ChunksInsideOneEnvelope ==
    (script = "final" /\ last.result = "printed") =>
        /\ Len(out) >= 3
        /\ out[1] = Begin
        /\ out[Len(out)] = Commit
        /\ \A i \in 1 .. Len(C21_Inner) :
              /\ C21_Inner[i].kind = "INSERT"
              /\ C21_Inner[i].count \in 1 .. 1000
              /\ C21_Inner[i].first =
                    IF i = 1 THEN last.start
                    ELSE C21_Inner[i - 1].first + C21_Inner[i - 1].count
        /\ C21_Inner[Len(C21_Inner)].first + C21_Inner[Len(C21_Inner)].count
              = last.start + last.len

\* a page of 2500 rows was printed as three INSERT statements in one envelope
C21_Witness ==
    /\ script = "final"
    /\ last.result = "printed"
    /\ last.len = 2500
    /\ Len(out) = 5

\* C22: for every page-fetching routine, those that order by id and those
\* that issue LIMIT/OFFSET without an ordering, fetching a page twice with the
\* same offset and limit from an unmodified table returns the identical
\* sequence of records.
C22_RefetchIdentical ==
    (script = "fetch" /\ rsrc.phase = "fetched twice") => rsrc.first = rsrc.second

\* the string a quoted literal stands for: the characters between the outer
\* quotes, every pair of quotes read as one quote; a quote that has no partner
\* ends the literal, the result is then not a string of the alphabet
RECURSIVE C23_Undouble(_)
C23_Undouble(s) ==
    IF s = << >> THEN << >>
    ELSE IF Head(s) # Quote THEN << Head(s) >> \o C23_Undouble(Tail(s))
    ELSE IF Len(s) >= 2 /\ s[2] = Quote THEN << Quote >> \o C23_Undouble(Tail(Tail(s)))
    ELSE << "unterminated" >>

C23_QuotesIn(s) == Cardinality({ i \in 1 .. Len(s) : s[i] = Quote })

\* C23: for every string s, with or without embedded single quotes, the
\* literal escape_sql_string(s) (in migrate-data-mcp and in SupabaseMigrator)
\* starts and ends with a single quote, is longer than s by these two and by
\* one character per embedded quote, and undoing the quote doubling of what
\* is between the outer quotes gives exactly s.
C23_EscapeRoundTrip ==
    (/\ script = "codec"
     /\ cv.phase = "built"
     /\ cv.builder \in { "migrate_raw_batch", "parallel.migrate_batch" }
     /\ cv.row.city.kind = "str") =>
        LET s == cv.row.city.s
            lit == cv.values["city"]
        IN  /\ Len(lit) = Len(s) + 2 + C23_QuotesIn(s)
            /\ lit[1] = Quote
            /\ lit[Len(lit)] = Quote
            /\ C23_Undouble(SubSeq(lit, 2, Len(lit) - 1)) = s

\* SupabaseMigrator.escape_sql_string has rendered the string 'a' (an a
\* between two quotes) as '''a'''
C23_Witness ==
    /\ script = "codec"
    /\ cv.phase = "built"
    /\ cv.builder = "parallel.migrate_batch"
    /\ cv.row.city = Str(<< Quote, "a", Quote >>)
    /\ cv.values["city"] = << Quote, Quote, Quote, "a", Quote, Quote, Quote >>

\* C24: in every envelope builder, csv_to_bulk_insert included, a record
\* whose stored JSON text does not parse gets exactly the canonical
\* empty-object literal '{}' for that field.
C24_InvalidJsonBecomesEmptyObject ==
    (/\ script = "codec"
     /\ cv.phase = "built"
     /\ "payload" \in BuiltFields(cv.builder)
     /\ cv.row.payload.kind = "str"
     /\ ~json_loads(cv.row.payload.s).ok) =>
        cv.values["payload"] = EmptyObjectLiteral

\* C25: every field whose source value is null (text field, JSON payload,
\* numeric lat, inserted_at timestamp) is rendered as the unquoted literal
\* NULL in the built value tuple.
C25_NullBecomesNULL ==
    (script = "codec" /\ cv.phase = "built") =>
        \A f \in BuiltFields(cv.builder) :
            cv.row[f].kind = "none" => cv.values[f] = NULL

\* a loop with a fixed page size started at offset 0 and not limited to a
\* number of batches
C26_FixedSizeRun ==
    /\ script \in { "ultra", "execute", "directmcp" }
    /\ start_offset = 0
    /\ script = "directmcp" => rn.max_batches = DirectMCPDefaultMaxBatches

C26_State ==
    C26_FixedSizeRun =>
        /\ current_offset % batch_size = 0 \/ current_offset = table_count
        /\ pc = "stopped" =>
              /\ last = [start |-> table_count, len |-> 0, result |-> "empty"]
              /\ current_offset = table_count
              /\ script = "ultra" => total_processed = table_count
              /\ script # "ultra" =>
                    batch_count = (table_count + batch_size - 1) \div batch_size

C26_Step ==
    C26_FixedSizeRun =>
        /\ pc' = "stopped" \/ current_offset' > current_offset
        /\ current_offset' # current_offset =>
              /\ current_offset % batch_size = 0
              /\ current_offset' = Min(current_offset + batch_size, table_count)
              /\ last'.start = current_offset
              /\ last'.len = current_offset' - current_offset
              /\ last'.result \in { "success", "printed" }

\* C26: for a table of n rows, a fixed page size b and start offset 0, the
\* loops of ultra-fast-migrate, execute-migrate and direct-mcp-migrate issue
\* the batches [0,b), [b,2b), ..., the last one ending at n, ceil(n/b) of them,
\* every iteration either issues the next batch or ends the loop, and the
\* loop ends on an empty page fetched at offset n with the migrated total
\* equal to n.
C26_FixedSizeLoopCoversTable == []C26_State /\ [][C26_Step]_vars

\* n = 12, b = 5: direct-mcp-migrate has issued [0,5), [5,10), [10,12) and
\* stopped on the empty page at 12
C26_Witness ==
    /\ script = "directmcp"
    /\ C26_FixedSizeRun
    /\ table_count = 12
    /\ batch_size = 5
    /\ pc = "stopped"
    /\ batch_count = 3
    /\ rn.emitted = << [start |-> 0, len |-> 5], [start |-> 5, len |-> 5],
                       [start |-> 10, len |-> 2] >>
    /\ last = [start |-> 12, len |-> 0, result |-> "empty"]

\* the batches of controller c are consecutive pages from its start offset
RECURSIVE C27_Tiles(_, _)
C27_Tiles(batches, from) ==
    \/ batches = << >>
    \/ /\ Head(batches).start = from
       /\ C27_Tiles(Tail(batches), from + Head(batches).len)

C27_Auto ==
    (script = "auto" /\ pc = "stopped" /\ stop_reason = "failures") =>
        /\ last.result # "success"
        /\ last.start = current_offset
        /\ current_offset = start_offset + sink_rows
        /\ total_processed = sink_rows

C27_Hybrid ==
    script = "hybrid" =>
        \A t \in Tables :
            LET c == orch.ctl[t] IN
            c.stop = "failed" =>
                /\ c.offset = c.start_offset + c.acked
                /\ c.batches # << >>
                /\ c.batches[Len(c.batches)].start = c.offset
                /\ c.batches[Len(c.batches)].len > 0
                /\ C27_Tiles(c.batches, c.start_offset)

\* C27: when continuous_auto_migrate stops after three failures in a row, or
\* HybridMigrator.migrate_table after a failed execution, the offset printed
\* is the start of the batch that was not acknowledged; the rows from the
\* start offset up to it are exactly the rows of the batches acknowledged as
\* successful, and the count of migrated rows holds none at or after it.
C27_FailedTableReportsResumableOffset == C27_Auto /\ C27_Hybrid

\* the raw table of hybrid-migrate stopped on its second batch: 25000 rows
\* acknowledged, offset 25068 reported
C27_Witness ==
    /\ script = "hybrid"
    /\ orch.ctl["raw"].stop = "failed"
    /\ orch.ctl["raw"].acked = 25000
    /\ orch.ctl["raw"].offset = 25068
    /\ orch.ctl["raw"].batches = << [start |-> 68, len |-> 25000],
                                    [start |-> 25068, len |-> 25000] >>

\* the scripts that take max_batches (mega-batch-execute: one batch) and
\* print the offset to start the next run with
C28_Resumable == { "directmcp", "automated", "mega" }

\* the end of the rows printed by all runs so far
C28_Reached ==
    IF rn.emitted = << >> THEN rn.origin
    ELSE rn.emitted[Len(rn.emitted)].start + rn.emitted[Len(rn.emitted)].len

\* C28: a run of direct-mcp-migrate, automated-mcp-migrate or
\* mega-batch-execute from offset o limited to k batches reports a next
\* offset, and the runs started one after the other at the offset reported
\* by the run before emit together exactly the batches of one uninterrupted
\* run from o: batch i starts at o + (i-1)*b and holds min(b, n - start) rows,
\* at least one, so every row from o on is covered once and in order, and
\* the offset reported is the end of the rows emitted so far.
C28_ResumptionComposes ==
    script \in C28_Resumable =>
        /\ \A i \in 1 .. Len(rn.emitted) :
              /\ rn.emitted[i].start = rn.origin + (i - 1) * batch_size
              /\ rn.emitted[i].len = Min(batch_size, table_count - rn.emitted[i].start)
              /\ rn.emitted[i].len > 0
        /\ current_offset = C28_Reached
        /\ pc = "top" /\ batch_count = 0 => start_offset = C28_Reached

\* automated-mcp-migrate on 12 rows with batch size 5 and max_batches 2: the
\* first run printed [0,5) and [5,10) and reported 10, the second run, started
\* at 10, printed [10,12)
C28_Witness ==
    /\ script = "automated"
    /\ rn.max_batches = 2
    /\ rn.runs = 2
    /\ rn.origin = 0
    /\ start_offset = 10
    /\ rn.emitted = << [start |-> 0, len |-> 5], [start |-> 5, len |-> 5],
                       [start |-> 10, len |-> 2] >>

\* C29: in MCPDirectMigrator.migrate_continuous a successful batch advances
\* the offset by exactly the number of rows of the page that was loaded, so
\* the offset never exceeds the table's row count (or the start offset, when
\* that is larger).
C29_AdvancesByPageLength ==
    script = "mcpdirect" =>
        /\ last.result = "printed" => current_offset = last.start + last.len
        /\ current_offset <= Max(start_offset, table_count)

C30_State ==
    /\ pc # "stopped" => consecutive_failures < 3
    /\ pc = "stopped" =>
          \/ stop_reason = "target" /\ current_offset >= target_total
          \/ stop_reason = "failures" /\ consecutive_failures >= 3

\* a step that ends an iteration of the loop (the step up to the executor
\* call only begins one)
C30_Step ==
    pc' # "executing" =>
        \/ current_offset' >= current_offset + 1
        \/ consecutive_failures' = consecutive_failures + 1
        \/ pc' = "stopped" /\ stop_reason' = "target"

C31_FetchedRangeIsQueuedRange ==
    script = "turbomigrate" =>
      \A w \in DOMAIN tm.worker :
        tm.worker[w].pc = "execute" =>
          tm.worker[w].count = Min(batch_size, table_count - tm.worker[w].offset)

\* C32: without an interrupt, main of turbo-migrate is never left waiting in
\* its monitoring loop for results that cannot come: when the offset queue
\* is empty, every worker has ended and no result is waiting, the loop's
\* condition completed_batches < total_batches is false, so the loop is left,
\* the workers are joined and main returns.
C32_MonitorNeverStarved ==
    (/\ script = "turbomigrate"
     /\ tm.main = "monitor"
     /\ tm.offset_queue = << >>
     /\ tm.results_queue = << >>
     /\ \A w \in DOMAIN tm.worker : tm.worker[w].pc = "done") =>
        tm.completed_batches >= tm.total_batches

RECURSIVE C33_Rows(_)
C33_Rows(results) ==
    IF results = << >> THEN 0 ELSE Head(results).count + C33_Rows(Tail(results))

\* C33: in turbo-migrate, under any interleaving of the workers, each queued
\* offset is taken by at most one worker and executed at most once and only
\* after it was taken, the monitor counts a batch only after it was executed
\* and counts it once, the rows counted and the rows of the results still
\* waiting add up to the rows the workers executed, and when main ends
\* without an interrupt total_records is the sum of the rows of the batches
\* executed.
C33_EachBatchOnce ==
    script = "turbomigrate" =>
      /\ \A q \in DOMAIN tm.taken :
            /\ tm.taken[q] <= 1
            /\ tm.executed[q] <= tm.taken[q]
            /\ q \in tm.recorded => tm.executed[q] = 1
      /\ tm.completed_batches = Cardinality(tm.recorded)
      /\ tm.total_records + C33_Rows(tm.results_queue) = tm.executed_rows
      /\ (tm.main = "done" /\ ~tm.interrupted) => tm.total_records = tm.executed_rows

\* two workers, two batches of 10000 rows, both counted, main returned
C33_Witness ==
    /\ script = "turbomigrate"
    /\ tm.main = "done"
    /\ ~tm.interrupted
    /\ tm.max_workers = 2
    /\ tm.completed_batches = 2
    /\ tm.total_records = 20000
    /\ tm.executed_rows = 20000

\* the envelope of table t that was begun before position j of the output
\* stream is not yet committed at j and is committed later
C34_InsideEnvelope(t, j) ==
    /\ \E i \in 1 .. (j - 1) :
          /\ out[i] = [table |-> t, kind |-> "BEGIN"]
          /\ \A k \in (i + 1) .. (j - 1) : out[k] # [table |-> t, kind |-> "COMMIT"]
    /\ \E k \in (j + 1) .. Len(out) : out[k] = [table |-> t, kind |-> "COMMIT"]

\* C34: in parallel-migrate, under any interleaving of the raw and the
\* normalized thread, no statement of one table appears on the output stream
\* between the BEGIN and the matching COMMIT of a batch of the other table.
C34_EnvelopesContiguous ==
    script = "parallel" =>
        \A j \in 1 .. Len(out) :
            \A t \in Tables : t # out[j].table => ~C34_InsideEnvelope(t, j)

\* C35: in auto-mcp-bulk, for the statements migrate-data-mcp.py prints, the
\* number of value tuples in the INSERT statement run_batch_and_execute
\* prints equals the record count it returns, so main's offset moves on only
\* by rows that are in the envelope printed.
C35_TuplesEqualRecordCount ==
    script = "bulk" =>
        \A i \in 1 .. Len(rn.emitted) :
            rn.emitted[i].tuples = rn.emitted[i].record_count

\* the rows of the envelopes read in order
RECURSIVE C36_Concat(_)
C36_Concat(envelopes) ==
    IF envelopes = << >> THEN << >>
    ELSE Head(envelopes) \o C36_Concat(Tail(envelopes))

\* the envelopes are ceil(n / b) in number, none is empty or longer than b,
\* all but the last hold b rows, and read in order they are the input rows
C36_Partition(n, b, envelopes) ==
    /\ Len(envelopes) = (n + b - 1) \div b
    /\ \A i \in 1 .. Len(envelopes) :
          /\ Len(envelopes[i]) >= 1
          /\ Len(envelopes[i]) <= b
          /\ i < Len(envelopes) => Len(envelopes[i]) = b
    /\ C36_Concat(envelopes) = [k \in 1 .. n |-> k]

\* C36: csv_to_bulk_insert on n input rows with batch size b emits
\* ceil(n / b) envelopes, each of at most b rows and all but the last of
\* exactly b; every input row is in exactly one envelope, the envelopes in
\* order give the input order, and no envelope is empty.
C36_EnvelopesPartitionInput ==
    (script = "csv" /\ rn.phase # "reading")
        => C36_Partition(table_count, batch_size, rn.envelopes)

\* C37: run_migration_with_mcp executes the blocks it extracted in their
\* order in the output (block k is the k-th executed, and a later block
\* starts after the end of the one before); no block is executed after one
\* that failed, and the function then returns False; it returns True only
\* when every block was executed with success.
C37_InOrderStopAtFirstFailure ==
    script = "mcpexec" =>
        /\ \A k \in 1 .. Len(rn.executed) : rn.executed[k].block = k
        /\ \A k \in 1 .. (Len(rn.sql_blocks) - 1) :
               rn.sql_blocks[k].last < rn.sql_blocks[k + 1].first
        /\ \A k \in 1 .. (Len(rn.executed) - 1) : rn.executed[k].success
        /\ (\E k \in 1 .. Len(rn.executed) : ~rn.executed[k].success)
               => rn.result = "False"
        /\ rn.result = "True"
               => /\ Len(rn.sql_blocks) >= 1
                  /\ Len(rn.executed) = Len(rn.sql_blocks)
                  /\ \A k \in 1 .. Len(rn.executed) : rn.executed[k].success

C37_Witness ==
    /\ script = "mcpexec"
    /\ Len(rn.sql_blocks) = 3
    /\ Len(rn.executed) = 2
    /\ rn.executed[1].success
    /\ ~rn.executed[2].success
    /\ rn.result = "False"

\* C38: an executor client that hands the envelope over in a temporary file
\* (execute_mcp_sql of execute-large-scale-pipeline, execute_via_mcp_auto
\* of auto-mcp-turbo) removes the file on every outcome of the call,
\* success, non-zero exit and timeout alike: when no call is under way no
\* temporary file exists.
C38_NoTempFileOutlivesCall ==
    (script \in { "pipeline", "turbo" } /\ rn.phase # "written") => rn.files = {}

====
